---- MODULE Spec2Model ----
(***************************************************************************)
(* Model of the Crowdfunding contract of PhilanChain (src/PhilanChain.sol). *)
(*                                                                         *)
(* The contract storage is the set of variables below.  Every external     *)
(* function of the contract is an operator from the storage before the     *)
(* call to a result record [s, err, ev, sent]: the storage after the call, *)
(* the custom error it reverted with ("ok" when it returned), the event it *)
(* emitted and the value transfer it made.  A revert restores the storage  *)
(* the call started from (EVM semantics), so every reverting branch        *)
(* returns the storage passed in.  One action per external function        *)
(* commits the result; `last` records the last call that returned.        *)
(*                                                                         *)
(* Timestamps are counted in seconds from the block of deployment.         *)
(* Amounts are far below 2^256, so the checked arithmetic of Solidity 0.8   *)
(* never overflows here.                                                   *)
(***************************************************************************)
EXTENDS Integers, Sequences, FiniteSets, TLC

\* ------------------------------------------------------------------ bounds
Goal == 3               \* constructor argument _goal
MaxDurationDays == 2    \* constructor argument _durationDays: 1..MaxDurationDays
MaxTotal == 3           \* cap on totalDonations (donations stop being offered)
MaxValue == 2           \* msg.value of one donate call ranges over 0..MaxValue
MaxMilestones == 1      \* cap on milestones.length
MaxVotingDays == 1      \* _votingDurationDays ranges over 0..MaxVotingDays
MaxUpdates == 1         \* cap on updates.length

\* --------------------------------------------------------------- constants
DAY == 86400            \* Solidity time unit `1 days`, in seconds

\* The deployer "o" is a contract account (a wallet contract): its code runs
\* when it receives value, so a transfer to it may be rejected.  "x" and "y"
\* are externally owned accounts, which accept every transfer.
Accounts == {"o", "x", "y"}
Contracts == {"o"}
Deployer == "o"
Descriptions == {"", "m"}
Titles == {"", "t"}

VARIABLES
    owner,            \* address public immutable owner
    fundraisingGoal,  \* uint256 public immutable fundraisingGoal
    deadline,         \* uint256 public immutable deadline
    totalDonations,   \* uint256 public totalDonations
    campaignActive,   \* bool public campaignActive
    donations,        \* mapping(address => uint256) donations
    milestones,       \* Milestone[] milestones (id i is milestones[i+1])
    updates,          \* CampaignUpdate[] updates
    hasVoted,         \* mapping(uint256 => mapping(address => bool)) hasVoted
    balance,          \* address(this).balance, the pool held by the contract
    now,              \* block.timestamp
    last              \* the last call that returned (or the passing of time)

vars == <<owner, fundraisingGoal, deadline, totalDonations, campaignActive,
          donations, milestones, updates, hasVoted, balance, now, last>>

\* Ids offered by callers: one more than can exist, so that an id out of
\* range is always among them.
IdInputs == 0..MaxMilestones
\* The milestones that exist.
Ids == 0..(Len(milestones) - 1)

\* ----------------------------------------------------------------- storage
Storage ==
    [totalDonations |-> totalDonations, campaignActive |-> campaignActive,
     donations |-> donations, milestones |-> milestones, updates |-> updates,
     hasVoted |-> hasVoted, balance |-> balance]

Commit(s) ==
    /\ totalDonations' = s.totalDonations
    /\ campaignActive' = s.campaignActive
    /\ donations' = s.donations
    /\ milestones' = s.milestones
    /\ updates' = s.updates
    /\ hasVoted' = s.hasVoted
    /\ balance' = s.balance

NoEvent == <<>>
NoTransfer == [to |-> "none", amount |-> 0]

\* A call that reverts with custom error e: nothing of the call persists.
Revert(s, e) == [s |-> s, err |-> e, ev |-> NoEvent, sent |-> NoTransfer]
Return(s, e, t) == [s |-> s, err |-> "ok", ev |-> e, sent |-> t]

\* recipient.call{value: v}(""): succeeds when the contract holds v and the
\* recipient accepts it; the value then leaves the pool.  The three callers
\* make the call after their last storage write, so what the recipient's
\* code does to the contract during the call is what it could do in a
\* transaction of its own right after: the actions below cover it.
CallSucceeds(s, v, accept) == s.balance >= v /\ accept
AfterCall(s, v) == [s EXCEPT !.balance = @ - v]

\* ---------------------------------------------------------------- handlers
\* receive absorbing the transfer into the pool instead of rejecting it.
receive_absorbs(s, sender, value) ==
    Return([s EXCEPT !.balance = @ + value], NoEvent, NoTransfer)

receive(s, sender, value) == Revert(s, "UseDonateFunction")

\* donate without the deadline check.
donate_noDeadline(s, sender, value) ==
    IF value = 0 THEN Revert(s, "InvalidDonationAmount")
    ELSE LET s1 == [s EXCEPT !.balance = @ + value]
             s2 == [s1 EXCEPT !.donations[sender] = @ + value]
             s3 == [s2 EXCEPT !.totalDonations = @ + value]
         IN Return(s3, <<"DonationReceived", sender, value>>, NoTransfer)

\* donate forgetting to add the value to totalDonations.
donate_skipsTotal(s, sender, value) ==
    IF now >= deadline THEN Revert(s, "FundraisingClosed")
    ELSE IF value = 0 THEN Revert(s, "InvalidDonationAmount")
    ELSE LET s1 == [s EXCEPT !.balance = @ + value]
             s2 == [s1 EXCEPT !.donations[sender] = @ + value]
         IN Return(s2, <<"DonationReceived", sender, value>>, NoTransfer)

\* donate refused once the campaign was ended: a check of campaignActive the
\* code does not have.
donate_requiresActive(s, sender, value) ==
    IF ~s.campaignActive THEN Revert(s, "FundraisingClosed")
    ELSE IF now >= deadline THEN Revert(s, "FundraisingClosed")
    ELSE IF value = 0 THEN Revert(s, "InvalidDonationAmount")
    ELSE LET s1 == [s EXCEPT !.balance = @ + value]
             s2 == [s1 EXCEPT !.donations[sender] = @ + value]
             s3 == [s2 EXCEPT !.totalDonations = @ + value]
         IN Return(s3, <<"DonationReceived", sender, value>>, NoTransfer)

\* donate closing one second late: > where the code has >=.
donate_strictDeadline(s, sender, value) ==
    IF now > deadline THEN Revert(s, "FundraisingClosed")
    ELSE IF value = 0 THEN Revert(s, "InvalidDonationAmount")
    ELSE LET s1 == [s EXCEPT !.balance = @ + value]
             s2 == [s1 EXCEPT !.donations[sender] = @ + value]
             s3 == [s2 EXCEPT !.totalDonations = @ + value]
         IN Return(s3, <<"DonationReceived", sender, value>>, NoTransfer)

\* donate overwriting the donor's balance: = where the code has +=.
donate_overwrites(s, sender, value) ==
    IF now >= deadline THEN Revert(s, "FundraisingClosed")
    ELSE IF value = 0 THEN Revert(s, "InvalidDonationAmount")
    ELSE LET s1 == [s EXCEPT !.balance = @ + value]
             s2 == [s1 EXCEPT !.donations[sender] = value]
             s3 == [s2 EXCEPT !.totalDonations = @ + value]
         IN Return(s3, <<"DonationReceived", sender, value>>, NoTransfer)

\* donate keeping the weight of votes already cast live: the donation is
\* added to the yes tally of the milestones the donor has voted on.
donate_liveWeight(s, sender, value) ==
    IF now >= deadline THEN Revert(s, "FundraisingClosed")
    ELSE IF value = 0 THEN Revert(s, "InvalidDonationAmount")
    ELSE LET s1 == [s EXCEPT !.balance = @ + value]
             s2 == [s1 EXCEPT !.donations[sender] = @ + value]
             s3 == [s2 EXCEPT !.totalDonations = @ + value]
             s4 == [s3 EXCEPT !.milestones =
                       [i \in 1..Len(@) |->
                           IF s.hasVoted[i - 1][sender]
                           THEN [@[i] EXCEPT !.yesVotes = @ + value]
                           ELSE @[i]]]
         IN Return(s4, <<"DonationReceived", sender, value>>, NoTransfer)

donate(s, sender, value) ==
    IF now >= deadline THEN Revert(s, "FundraisingClosed")
    ELSE IF value = 0 THEN Revert(s, "InvalidDonationAmount")
    ELSE LET s1 == [s EXCEPT !.balance = @ + value]
             s2 == [s1 EXCEPT !.donations[sender] = @ + value]
             s3 == [s2 EXCEPT !.totalDonations = @ + value]
         IN Return(s3, <<"DonationReceived", sender, value>>, NoTransfer)

\* createMilestone creating the milestone with voting already closed.
createMilestone_votingClosed(s, sender, description, fundAmount, votingDurationDays) ==
    IF sender # owner THEN Revert(s, "NotOwner")
    ELSE IF description = "" THEN Revert(s, "EmptyDescription")
    ELSE IF fundAmount = 0 \/ fundAmount > s.balance
         THEN Revert(s, "InvalidMilestoneAmount")
    ELSE IF votingDurationDays = 0 THEN Revert(s, "InvalidMilestone")
    ELSE LET m == [description |-> description,
                   fundAmount |-> fundAmount,
                   voteDeadline |-> now + (votingDurationDays * DAY),
                   yesVotes |-> 0,
                   noVotes |-> 0,
                   approved |-> FALSE,
                   fundsReleased |-> FALSE,
                   votingActive |-> FALSE]
             s1 == [s EXCEPT !.milestones = Append(@, m)]
         IN Return(s1, <<"MilestoneCreated", Len(s1.milestones) - 1,
                         description, fundAmount>>, NoTransfer)

\* createMilestone without the check of the voting duration.
createMilestone_noDurationCheck(s, sender, description, fundAmount, votingDurationDays) ==
    IF sender # owner THEN Revert(s, "NotOwner")
    ELSE IF description = "" THEN Revert(s, "EmptyDescription")
    ELSE IF fundAmount = 0 \/ fundAmount > s.balance
         THEN Revert(s, "InvalidMilestoneAmount")
    ELSE LET m == [description |-> description,
                   fundAmount |-> fundAmount,
                   voteDeadline |-> now + (votingDurationDays * DAY),
                   yesVotes |-> 0,
                   noVotes |-> 0,
                   approved |-> FALSE,
                   fundsReleased |-> FALSE,
                   votingActive |-> TRUE]
             s1 == [s EXCEPT !.milestones = Append(@, m)]
         IN Return(s1, <<"MilestoneCreated", Len(s1.milestones) - 1,
                         description, fundAmount>>, NoTransfer)

\* createMilestone refusing an amount equal to the pool: >= where the code
\* has >.
createMilestone_strictPool(s, sender, description, fundAmount, votingDurationDays) ==
    IF sender # owner THEN Revert(s, "NotOwner")
    ELSE IF description = "" THEN Revert(s, "EmptyDescription")
    ELSE IF fundAmount = 0 \/ fundAmount >= s.balance
         THEN Revert(s, "InvalidMilestoneAmount")
    ELSE IF votingDurationDays = 0 THEN Revert(s, "InvalidMilestone")
    ELSE LET m == [description |-> description,
                   fundAmount |-> fundAmount,
                   voteDeadline |-> now + (votingDurationDays * DAY),
                   yesVotes |-> 0,
                   noVotes |-> 0,
                   approved |-> FALSE,
                   fundsReleased |-> FALSE,
                   votingActive |-> TRUE]
             s1 == [s EXCEPT !.milestones = Append(@, m)]
         IN Return(s1, <<"MilestoneCreated", Len(s1.milestones) - 1,
                         description, fundAmount>>, NoTransfer)

createMilestone(s, sender, description, fundAmount, votingDurationDays) ==
    IF sender # owner THEN Revert(s, "NotOwner")
    ELSE IF description = "" THEN Revert(s, "EmptyDescription")
    ELSE IF fundAmount = 0 \/ fundAmount > s.balance
         THEN Revert(s, "InvalidMilestoneAmount")
    ELSE IF votingDurationDays = 0 THEN Revert(s, "InvalidMilestone")
    ELSE LET m == [description |-> description,
                   fundAmount |-> fundAmount,
                   voteDeadline |-> now + (votingDurationDays * DAY),
                   yesVotes |-> 0,
                   noVotes |-> 0,
                   approved |-> FALSE,
                   fundsReleased |-> FALSE,
                   votingActive |-> TRUE]
             s1 == [s EXCEPT !.milestones = Append(@, m)]
         IN Return(s1, <<"MilestoneCreated", Len(s1.milestones) - 1,
                         description, fundAmount>>, NoTransfer)

\* voteOnMilestone without the hasVoted check.
voteOnMilestone_noVotedCheck(s, sender, id, approve) ==
    IF s.donations[sender] = 0 THEN Revert(s, "OnlyDonorsCanVote")
    ELSE IF id >= Len(s.milestones) THEN Revert(s, "InvalidMilestone")
    ELSE LET milestone == s.milestones[id + 1] IN
    IF ~milestone.votingActive THEN Revert(s, "VotingNotActive")
    ELSE IF now > milestone.voteDeadline THEN Revert(s, "VotingNotActive")
    ELSE LET voteWeight == s.donations[sender]
             s1 == [s EXCEPT !.hasVoted[id][sender] = TRUE]
             s2 == IF approve
                   THEN [s1 EXCEPT !.milestones[id + 1].yesVotes = @ + voteWeight]
                   ELSE [s1 EXCEPT !.milestones[id + 1].noVotes = @ + voteWeight]
         IN Return(s2, <<"VoteCast", id, sender, approve, voteWeight>>,
                   NoTransfer)

\* voteOnMilestone without the deadline check: votes are taken until the
\* milestone is finalized.
voteOnMilestone_noDeadline(s, sender, id, approve) ==
    IF s.donations[sender] = 0 THEN Revert(s, "OnlyDonorsCanVote")
    ELSE IF id >= Len(s.milestones) THEN Revert(s, "InvalidMilestone")
    ELSE LET milestone == s.milestones[id + 1] IN
    IF ~milestone.votingActive THEN Revert(s, "VotingNotActive")
    ELSE IF s.hasVoted[id][sender] THEN Revert(s, "AlreadyVoted")
    ELSE LET voteWeight == s.donations[sender]
             s1 == [s EXCEPT !.hasVoted[id][sender] = TRUE]
             s2 == IF approve
                   THEN [s1 EXCEPT !.milestones[id + 1].yesVotes = @ + voteWeight]
                   ELSE [s1 EXCEPT !.milestones[id + 1].noVotes = @ + voteWeight]
         IN Return(s2, <<"VoteCast", id, sender, approve, voteWeight>>,
                   NoTransfer)

\* voteOnMilestone closing at the deadline itself: >= where the code has >.
voteOnMilestone_strictDeadline(s, sender, id, approve) ==
    IF s.donations[sender] = 0 THEN Revert(s, "OnlyDonorsCanVote")
    ELSE IF id >= Len(s.milestones) THEN Revert(s, "InvalidMilestone")
    ELSE LET milestone == s.milestones[id + 1] IN
    IF ~milestone.votingActive THEN Revert(s, "VotingNotActive")
    ELSE IF now >= milestone.voteDeadline THEN Revert(s, "VotingNotActive")
    ELSE IF s.hasVoted[id][sender] THEN Revert(s, "AlreadyVoted")
    ELSE LET voteWeight == s.donations[sender]
             s1 == [s EXCEPT !.hasVoted[id][sender] = TRUE]
             s2 == IF approve
                   THEN [s1 EXCEPT !.milestones[id + 1].yesVotes = @ + voteWeight]
                   ELSE [s1 EXCEPT !.milestones[id + 1].noVotes = @ + voteWeight]
         IN Return(s2, <<"VoteCast", id, sender, approve, voteWeight>>,
                   NoTransfer)

\* voteOnMilestone counting the vote on the newest milestone instead of the
\* one named by the caller.
voteOnMilestone_newestMilestone(s, sender, id, approve) ==
    IF s.donations[sender] = 0 THEN Revert(s, "OnlyDonorsCanVote")
    ELSE IF id >= Len(s.milestones) THEN Revert(s, "InvalidMilestone")
    ELSE LET milestone == s.milestones[id + 1] IN
    IF ~milestone.votingActive THEN Revert(s, "VotingNotActive")
    ELSE IF now > milestone.voteDeadline THEN Revert(s, "VotingNotActive")
    ELSE IF s.hasVoted[id][sender] THEN Revert(s, "AlreadyVoted")
    ELSE LET voteWeight == s.donations[sender]
             newest == Len(s.milestones)
             s1 == [s EXCEPT !.hasVoted[id][sender] = TRUE]
             s2 == IF approve
                   THEN [s1 EXCEPT !.milestones[newest].yesVotes = @ + voteWeight]
                   ELSE [s1 EXCEPT !.milestones[newest].noVotes = @ + voteWeight]
         IN Return(s2, <<"VoteCast", id, sender, approve, voteWeight>>,
                   NoTransfer)

voteOnMilestone(s, sender, id, approve) ==
    IF s.donations[sender] = 0 THEN Revert(s, "OnlyDonorsCanVote")
    ELSE IF id >= Len(s.milestones) THEN Revert(s, "InvalidMilestone")
    ELSE LET milestone == s.milestones[id + 1] IN
    IF ~milestone.votingActive THEN Revert(s, "VotingNotActive")
    ELSE IF now > milestone.voteDeadline THEN Revert(s, "VotingNotActive")
    ELSE IF s.hasVoted[id][sender] THEN Revert(s, "AlreadyVoted")
    ELSE LET voteWeight == s.donations[sender]
             s1 == [s EXCEPT !.hasVoted[id][sender] = TRUE]
             s2 == IF approve
                   THEN [s1 EXCEPT !.milestones[id + 1].yesVotes = @ + voteWeight]
                   ELSE [s1 EXCEPT !.milestones[id + 1].noVotes = @ + voteWeight]
         IN Return(s2, <<"VoteCast", id, sender, approve, voteWeight>>,
                   NoTransfer)

\* finalizeMilestoneVote comparing with < where the code has <=: voting is
\* still active only strictly before voteDeadline.
finalizeMilestoneVote_strictDeadline(s, sender, id) ==
    IF id >= Len(s.milestones) THEN Revert(s, "InvalidMilestone")
    ELSE LET milestone == s.milestones[id + 1] IN
    IF ~milestone.votingActive THEN Revert(s, "VotingNotActive")
    ELSE IF now < milestone.voteDeadline THEN Revert(s, "VotingStillActive")
    ELSE LET s1 == [s EXCEPT !.milestones[id + 1].votingActive = FALSE]
             totalVotes == milestone.yesVotes + milestone.noVotes
         IN IF totalVotes > 0 /\ milestone.yesVotes > milestone.noVotes
            THEN Return([s1 EXCEPT !.milestones[id + 1].approved = TRUE],
                        <<"MilestoneApproved", id>>, NoTransfer)
            ELSE Return(s1, <<"MilestoneRejected", id>>, NoTransfer)

\* finalizeMilestoneVote refusing a milestone nobody voted on.
finalizeMilestoneVote_needsVotes(s, sender, id) ==
    IF id >= Len(s.milestones) THEN Revert(s, "InvalidMilestone")
    ELSE LET milestone == s.milestones[id + 1] IN
    IF ~milestone.votingActive THEN Revert(s, "VotingNotActive")
    ELSE IF now <= milestone.voteDeadline THEN Revert(s, "VotingStillActive")
    ELSE IF milestone.yesVotes + milestone.noVotes = 0
         THEN Revert(s, "VotingNotActive")
    ELSE LET s1 == [s EXCEPT !.milestones[id + 1].votingActive = FALSE]
             totalVotes == milestone.yesVotes + milestone.noVotes
         IN IF totalVotes > 0 /\ milestone.yesVotes > milestone.noVotes
            THEN Return([s1 EXCEPT !.milestones[id + 1].approved = TRUE],
                        <<"MilestoneApproved", id>>, NoTransfer)
            ELSE Return(s1, <<"MilestoneRejected", id>>, NoTransfer)

\* finalizeMilestoneVote reserved to the owner.
finalizeMilestoneVote_ownerOnly(s, sender, id) ==
    IF sender # owner THEN Revert(s, "NotOwner")
    ELSE IF id >= Len(s.milestones) THEN Revert(s, "InvalidMilestone")
    ELSE LET milestone == s.milestones[id + 1] IN
    IF ~milestone.votingActive THEN Revert(s, "VotingNotActive")
    ELSE IF now <= milestone.voteDeadline THEN Revert(s, "VotingStillActive")
    ELSE LET s1 == [s EXCEPT !.milestones[id + 1].votingActive = FALSE]
             totalVotes == milestone.yesVotes + milestone.noVotes
         IN IF totalVotes > 0 /\ milestone.yesVotes > milestone.noVotes
            THEN Return([s1 EXCEPT !.milestones[id + 1].approved = TRUE],
                        <<"MilestoneApproved", id>>, NoTransfer)
            ELSE Return(s1, <<"MilestoneRejected", id>>, NoTransfer)

\* finalizeMilestoneVote approving on a tie: >= where the code has >.
finalizeMilestoneVote_tieApproves(s, sender, id) ==
    IF id >= Len(s.milestones) THEN Revert(s, "InvalidMilestone")
    ELSE LET milestone == s.milestones[id + 1] IN
    IF ~milestone.votingActive THEN Revert(s, "VotingNotActive")
    ELSE IF now <= milestone.voteDeadline THEN Revert(s, "VotingStillActive")
    ELSE LET s1 == [s EXCEPT !.milestones[id + 1].votingActive = FALSE]
             totalVotes == milestone.yesVotes + milestone.noVotes
         IN IF totalVotes > 0 /\ milestone.yesVotes >= milestone.noVotes
            THEN Return([s1 EXCEPT !.milestones[id + 1].approved = TRUE],
                        <<"MilestoneApproved", id>>, NoTransfer)
            ELSE Return(s1, <<"MilestoneRejected", id>>, NoTransfer)

finalizeMilestoneVote(s, sender, id) ==
    IF id >= Len(s.milestones) THEN Revert(s, "InvalidMilestone")
    ELSE LET milestone == s.milestones[id + 1] IN
    IF ~milestone.votingActive THEN Revert(s, "VotingNotActive")
    ELSE IF now <= milestone.voteDeadline THEN Revert(s, "VotingStillActive")
    ELSE LET s1 == [s EXCEPT !.milestones[id + 1].votingActive = FALSE]
             totalVotes == milestone.yesVotes + milestone.noVotes
         IN IF totalVotes > 0 /\ milestone.yesVotes > milestone.noVotes
            THEN Return([s1 EXCEPT !.milestones[id + 1].approved = TRUE],
                        <<"MilestoneApproved", id>>, NoTransfer)
            ELSE Return(s1, <<"MilestoneRejected", id>>, NoTransfer)

\* releaseMilestoneFunds without the approved check.
releaseMilestoneFunds_noApprovedCheck(s, sender, id, accept) ==
    IF sender # owner THEN Revert(s, "NotOwner")
    ELSE IF id >= Len(s.milestones) THEN Revert(s, "InvalidMilestone")
    ELSE LET milestone == s.milestones[id + 1] IN
    IF milestone.fundsReleased THEN Revert(s, "FundsAlreadyReleased")
    ELSE IF s.balance < milestone.fundAmount
         THEN Revert(s, "InsufficientContractBalance")
    ELSE LET s1 == [s EXCEPT !.milestones[id + 1].fundsReleased = TRUE]
         IN IF ~CallSucceeds(s1, milestone.fundAmount, accept)
            THEN Revert(s, "TransferFailed")
            ELSE Return(AfterCall(s1, milestone.fundAmount),
                        <<"MilestoneFundsReleased", id, milestone.fundAmount>>,
                        [to |-> owner, amount |-> milestone.fundAmount])

\* releaseMilestoneFunds ignoring the result of the transfer: a failed
\* transfer does not revert, the call returns with the flag set.
releaseMilestoneFunds_ignoresFailure(s, sender, id, accept) ==
    IF sender # owner THEN Revert(s, "NotOwner")
    ELSE IF id >= Len(s.milestones) THEN Revert(s, "InvalidMilestone")
    ELSE LET milestone == s.milestones[id + 1] IN
    IF ~milestone.approved THEN Revert(s, "MilestoneNotApproved")
    ELSE IF milestone.fundsReleased THEN Revert(s, "FundsAlreadyReleased")
    ELSE IF s.balance < milestone.fundAmount
         THEN Revert(s, "InsufficientContractBalance")
    ELSE LET s1 == [s EXCEPT !.milestones[id + 1].fundsReleased = TRUE]
         IN IF ~CallSucceeds(s1, milestone.fundAmount, accept)
            THEN Return(s1, <<"MilestoneFundsReleased", id,
                              milestone.fundAmount>>, NoTransfer)
            ELSE Return(AfterCall(s1, milestone.fundAmount),
                        <<"MilestoneFundsReleased", id, milestone.fundAmount>>,
                        [to |-> owner, amount |-> milestone.fundAmount])

\* releaseMilestoneFunds clearing the amount of the milestone it pays.
releaseMilestoneFunds_zeroesAmount(s, sender, id, accept) ==
    IF sender # owner THEN Revert(s, "NotOwner")
    ELSE IF id >= Len(s.milestones) THEN Revert(s, "InvalidMilestone")
    ELSE LET milestone == s.milestones[id + 1] IN
    IF ~milestone.approved THEN Revert(s, "MilestoneNotApproved")
    ELSE IF milestone.fundsReleased THEN Revert(s, "FundsAlreadyReleased")
    ELSE IF s.balance < milestone.fundAmount
         THEN Revert(s, "InsufficientContractBalance")
    ELSE LET s1 == [s EXCEPT !.milestones[id + 1].fundsReleased = TRUE,
                             !.milestones[id + 1].fundAmount = 0]
         IN IF ~CallSucceeds(s1, milestone.fundAmount, accept)
            THEN Revert(s, "TransferFailed")
            ELSE Return(AfterCall(s1, milestone.fundAmount),
                        <<"MilestoneFundsReleased", id, milestone.fundAmount>>,
                        [to |-> owner, amount |-> milestone.fundAmount])

\* releaseMilestoneFunds refusing a pool that is exactly the amount: <= where
\* the code has <.
releaseMilestoneFunds_strictBalance(s, sender, id, accept) ==
    IF sender # owner THEN Revert(s, "NotOwner")
    ELSE IF id >= Len(s.milestones) THEN Revert(s, "InvalidMilestone")
    ELSE LET milestone == s.milestones[id + 1] IN
    IF ~milestone.approved THEN Revert(s, "MilestoneNotApproved")
    ELSE IF milestone.fundsReleased THEN Revert(s, "FundsAlreadyReleased")
    ELSE IF s.balance <= milestone.fundAmount
         THEN Revert(s, "InsufficientContractBalance")
    ELSE LET s1 == [s EXCEPT !.milestones[id + 1].fundsReleased = TRUE]
         IN IF ~CallSucceeds(s1, milestone.fundAmount, accept)
            THEN Revert(s, "TransferFailed")
            ELSE Return(AfterCall(s1, milestone.fundAmount),
                        <<"MilestoneFundsReleased", id, milestone.fundAmount>>,
                        [to |-> owner, amount |-> milestone.fundAmount])

releaseMilestoneFunds(s, sender, id, accept) ==
    IF sender # owner THEN Revert(s, "NotOwner")
    ELSE IF id >= Len(s.milestones) THEN Revert(s, "InvalidMilestone")
    ELSE LET milestone == s.milestones[id + 1] IN
    IF ~milestone.approved THEN Revert(s, "MilestoneNotApproved")
    ELSE IF milestone.fundsReleased THEN Revert(s, "FundsAlreadyReleased")
    ELSE IF s.balance < milestone.fundAmount
         THEN Revert(s, "InsufficientContractBalance")
    ELSE LET s1 == [s EXCEPT !.milestones[id + 1].fundsReleased = TRUE]
         IN IF ~CallSucceeds(s1, milestone.fundAmount, accept)
            THEN Revert(s, "TransferFailed")
            ELSE Return(AfterCall(s1, milestone.fundAmount),
                        <<"MilestoneFundsReleased", id, milestone.fundAmount>>,
                        [to |-> owner, amount |-> milestone.fundAmount])

postUpdate(s, sender, title, contentHash) ==
    IF sender # owner THEN Revert(s, "NotOwner")
    ELSE IF title = "" THEN Revert(s, "EmptyDescription")
    ELSE LET u == [title |-> title, contentHash |-> contentHash,
                   timestamp |-> now]
             s1 == [s EXCEPT !.updates = Append(@, u)]
         IN Return(s1, <<"CampaignUpdatePosted", Len(s1.updates) - 1, title,
                         now>>, NoTransfer)

\* withdraw closing the books: totalDonations is reset with the pool.
withdraw_resetsTotal(s, sender, accept) ==
    IF sender # owner THEN Revert(s, "NotOwner")
    ELSE IF ~(now >= deadline \/ s.totalDonations >= fundraisingGoal)
         THEN Revert(s, "WithdrawalNotAvailable")
    ELSE LET bal == s.balance IN
    IF bal = 0 THEN Revert(s, "NoFundsToWithdraw")
    ELSE IF ~CallSucceeds(s, bal, accept) THEN Revert(s, "TransferFailed")
    ELSE Return([AfterCall(s, bal) EXCEPT !.totalDonations = 0],
                <<"FundsWithdrawn", bal>>,
                [to |-> owner, amount |-> bal])

\* withdraw without its emit.
withdraw_noEvent(s, sender, accept) ==
    IF sender # owner THEN Revert(s, "NotOwner")
    ELSE IF ~(now >= deadline \/ s.totalDonations >= fundraisingGoal)
         THEN Revert(s, "WithdrawalNotAvailable")
    ELSE LET bal == s.balance IN
    IF bal = 0 THEN Revert(s, "NoFundsToWithdraw")
    ELSE IF ~CallSucceeds(s, bal, accept) THEN Revert(s, "TransferFailed")
    ELSE Return(AfterCall(s, bal), NoEvent,
                [to |-> owner, amount |-> bal])

\* withdraw reserving the funds of approved milestones that are not paid yet.
withdraw_reservesApproved(s, sender, accept) ==
    IF sender # owner THEN Revert(s, "NotOwner")
    ELSE IF ~(now >= deadline \/ s.totalDonations >= fundraisingGoal)
         THEN Revert(s, "WithdrawalNotAvailable")
    ELSE LET Owed == {i \in 1..Len(s.milestones) :
                          s.milestones[i].approved
                              /\ ~s.milestones[i].fundsReleased}
             Reserved[S \in SUBSET Owed] ==
                 IF S = {} THEN 0
                 ELSE LET i == CHOOSE j \in S : TRUE
                      IN s.milestones[i].fundAmount + Reserved[S \ {i}]
             bal == IF s.balance > Reserved[Owed]
                    THEN s.balance - Reserved[Owed] ELSE 0
         IN
    IF bal = 0 THEN Revert(s, "NoFundsToWithdraw")
    ELSE IF ~CallSucceeds(s, bal, accept) THEN Revert(s, "TransferFailed")
    ELSE Return(AfterCall(s, bal), <<"FundsWithdrawn", bal>>,
                [to |-> owner, amount |-> bal])

\* withdraw leaving in the pool what unreleased milestones ask for.
withdraw_keepsEarmarked(s, sender, accept) ==
    IF sender # owner THEN Revert(s, "NotOwner")
    ELSE IF ~(now >= deadline \/ s.totalDonations >= fundraisingGoal)
         THEN Revert(s, "WithdrawalNotAvailable")
    ELSE LET Unreleased == {i \in 1..Len(s.milestones) :
                                ~s.milestones[i].fundsReleased}
             Earmarked[S \in SUBSET Unreleased] ==
                 IF S = {} THEN 0
                 ELSE LET i == CHOOSE j \in S : TRUE
                      IN s.milestones[i].fundAmount + Earmarked[S \ {i}]
             earmarked == Earmarked[Unreleased]
             bal == IF s.balance > earmarked THEN s.balance - earmarked ELSE 0
         IN
    IF bal = 0 THEN Revert(s, "NoFundsToWithdraw")
    ELSE IF ~CallSucceeds(s, bal, accept) THEN Revert(s, "TransferFailed")
    ELSE Return(AfterCall(s, bal), <<"FundsWithdrawn", bal>>,
                [to |-> owner, amount |-> bal])

\* withdraw opening one second late: > where the code has >=.
withdraw_strictDeadline(s, sender, accept) ==
    IF sender # owner THEN Revert(s, "NotOwner")
    ELSE IF ~(now > deadline \/ s.totalDonations >= fundraisingGoal)
         THEN Revert(s, "WithdrawalNotAvailable")
    ELSE LET bal == s.balance IN
    IF bal = 0 THEN Revert(s, "NoFundsToWithdraw")
    ELSE IF ~CallSucceeds(s, bal, accept) THEN Revert(s, "TransferFailed")
    ELSE Return(AfterCall(s, bal), <<"FundsWithdrawn", bal>>,
                [to |-> owner, amount |-> bal])

withdraw(s, sender, accept) ==
    IF sender # owner THEN Revert(s, "NotOwner")
    ELSE IF ~(now >= deadline \/ s.totalDonations >= fundraisingGoal)
         THEN Revert(s, "WithdrawalNotAvailable")
    ELSE LET bal == s.balance IN
    IF bal = 0 THEN Revert(s, "NoFundsToWithdraw")
    ELSE IF ~CallSucceeds(s, bal, accept) THEN Revert(s, "TransferFailed")
    ELSE Return(AfterCall(s, bal), <<"FundsWithdrawn", bal>>,
                [to |-> owner, amount |-> bal])

\* refund zeroing the balance without decrementing totalDonations.
refund_keepsTotal(s, sender, accept) ==
    IF ~(now >= deadline /\ s.totalDonations < fundraisingGoal)
    THEN Revert(s, "RefundNotAvailable")
    ELSE LET amount == s.donations[sender] IN
    IF amount = 0 THEN Revert(s, "NoDonationToRefund")
    ELSE LET s1 == [s EXCEPT !.donations[sender] = 0]
         IN IF ~CallSucceeds(s1, amount, accept)
            THEN Revert(s, "TransferFailed")
            ELSE Return(AfterCall(s1, amount),
                        <<"RefundIssued", sender, amount>>,
                        [to |-> sender, amount |-> amount])

\* refund failing on a failed transfer without undoing its writes (an error
\* result returned instead of a revert).
refund_noRollback(s, sender, accept) ==
    IF ~(now >= deadline /\ s.totalDonations < fundraisingGoal)
    THEN Revert(s, "RefundNotAvailable")
    ELSE LET amount == s.donations[sender] IN
    IF amount = 0 THEN Revert(s, "NoDonationToRefund")
    ELSE LET s1 == [s EXCEPT !.donations[sender] = 0]
             s2 == [s1 EXCEPT !.totalDonations = @ - amount]
         IN IF ~CallSucceeds(s2, amount, accept)
            THEN [s |-> s2, err |-> "TransferFailed", ev |-> NoEvent,
                  sent |-> NoTransfer]
            ELSE Return(AfterCall(s2, amount),
                        <<"RefundIssued", sender, amount>>,
                        [to |-> sender, amount |-> amount])

\* refund forgetting to zero the caller's balance.
refund_keepsBalance(s, sender, accept) ==
    IF ~(now >= deadline /\ s.totalDonations < fundraisingGoal)
    THEN Revert(s, "RefundNotAvailable")
    ELSE LET amount == s.donations[sender] IN
    IF amount = 0 THEN Revert(s, "NoDonationToRefund")
    ELSE LET s2 == [s EXCEPT !.totalDonations = @ - amount]
         IN IF ~CallSucceeds(s2, amount, accept)
            THEN Revert(s, "TransferFailed")
            ELSE Return(AfterCall(s2, amount),
                        <<"RefundIssued", sender, amount>>,
                        [to |-> sender, amount |-> amount])

\* refund without its gate: open at any time, whatever the total.
refund_noGate(s, sender, accept) ==
    LET amount == s.donations[sender] IN
    IF amount = 0 THEN Revert(s, "NoDonationToRefund")
    ELSE LET s1 == [s EXCEPT !.donations[sender] = 0]
             s2 == [s1 EXCEPT !.totalDonations = @ - amount]
         IN IF ~CallSucceeds(s2, amount, accept)
            THEN Revert(s, "TransferFailed")
            ELSE Return(AfterCall(s2, amount),
                        <<"RefundIssued", sender, amount>>,
                        [to |-> sender, amount |-> amount])

\* refund open after the deadline whether or not the goal was met.
refund_ignoresGoal(s, sender, accept) ==
    IF ~(now >= deadline)
    THEN Revert(s, "RefundNotAvailable")
    ELSE LET amount == s.donations[sender] IN
    IF amount = 0 THEN Revert(s, "NoDonationToRefund")
    ELSE LET s1 == [s EXCEPT !.donations[sender] = 0]
             s2 == [s1 EXCEPT !.totalDonations = @ - amount]
         IN IF ~CallSucceeds(s2, amount, accept)
            THEN Revert(s, "TransferFailed")
            ELSE Return(AfterCall(s2, amount),
                        <<"RefundIssued", sender, amount>>,
                        [to |-> sender, amount |-> amount])

\* refund opening one second late: > where the code has >=.
refund_strictDeadline(s, sender, accept) ==
    IF ~(now > deadline /\ s.totalDonations < fundraisingGoal)
    THEN Revert(s, "RefundNotAvailable")
    ELSE LET amount == s.donations[sender] IN
    IF amount = 0 THEN Revert(s, "NoDonationToRefund")
    ELSE LET s1 == [s EXCEPT !.donations[sender] = 0]
             s2 == [s1 EXCEPT !.totalDonations = @ - amount]
         IN IF ~CallSucceeds(s2, amount, accept)
            THEN Revert(s, "TransferFailed")
            ELSE Return(AfterCall(s2, amount),
                        <<"RefundIssued", sender, amount>>,
                        [to |-> sender, amount |-> amount])

refund(s, sender, accept) ==
    IF ~(now >= deadline /\ s.totalDonations < fundraisingGoal)
    THEN Revert(s, "RefundNotAvailable")
    ELSE LET amount == s.donations[sender] IN
    IF amount = 0 THEN Revert(s, "NoDonationToRefund")
    ELSE LET s1 == [s EXCEPT !.donations[sender] = 0]
             s2 == [s1 EXCEPT !.totalDonations = @ - amount]
         IN IF ~CallSucceeds(s2, amount, accept)
            THEN Revert(s, "TransferFailed")
            ELSE Return(AfterCall(s2, amount),
                        <<"RefundIssued", sender, amount>>,
                        [to |-> sender, amount |-> amount])

\* endCampaign flipping the flag: = !campaignActive where the code has = false.
endCampaign_toggles(s, sender) ==
    IF sender # owner THEN Revert(s, "NotOwner")
    ELSE Return([s EXCEPT !.campaignActive = ~@], NoEvent, NoTransfer)

\* endCampaign without the onlyOwner modifier.
endCampaign_anyone(s, sender) ==
    Return([s EXCEPT !.campaignActive = FALSE], NoEvent, NoTransfer)

endCampaign(s, sender) ==
    IF sender # owner THEN Revert(s, "NotOwner")
    ELSE Return([s EXCEPT !.campaignActive = FALSE], NoEvent, NoTransfer)

\* ------------------------------------------------------------------- views
progressPercentage ==
    IF fundraisingGoal = 0 THEN 0
    ELSE (totalDonations * 100) \div fundraisingGoal

timeRemaining == IF now < deadline THEN deadline - now ELSE 0

getMilestoneCount == Len(milestones)

\* ----------------------------------------------------------------- actions
\* The record of a call that returned: what was called, the event it emitted
\* (which names the caller and the milestone where the code logs them) and
\* the value it sent.
Called(op, r) ==
    [op |-> op, ev |-> r.ev, sent |-> r.sent]

\* A transaction calling the contract.  When the call returns, its storage
\* writes are committed and the call is recorded.  When it reverts, the
\* transaction leaves no trace: storage, pool and record are as before.
Do(op, r) ==
    IF r.err = "ok"
    THEN /\ Commit(r.s)
         /\ last' = Called(op, r)
         /\ UNCHANGED <<owner, fundraisingGoal, deadline, now>>
    ELSE UNCHANGED vars

\* Whether the recipient of a transfer takes it: an externally owned account
\* always does, a contract decides in its own code.
Accepts(recipient) == IF recipient \in Contracts THEN BOOLEAN ELSE {TRUE}

Init ==
    /\ owner = Deployer
    /\ fundraisingGoal = Goal
    /\ now = 0
    /\ \E durationDays \in 1..MaxDurationDays :
           deadline = now + durationDays * DAY
    /\ totalDonations = 0
    /\ campaignActive = TRUE
    /\ donations = [a \in Accounts |-> 0]
    /\ milestones = <<>>
    /\ updates = <<>>
    /\ hasVoted = [i \in IdInputs |-> [a \in Accounts |-> FALSE]]
    /\ balance = 0
    /\ last = [op |-> "constructor", ev |-> NoEvent, sent |-> NoTransfer]

Receive ==
    \E sender \in Accounts, value \in 1..MaxValue :
        Do("receive", receive(Storage, sender, value))

Donate ==
    \E sender \in Accounts, value \in 0..MaxValue :
        /\ totalDonations + value <= MaxTotal
        /\ Do("donate", donate(Storage, sender, value))

CreateMilestone ==
    \E sender \in Accounts, description \in Descriptions,
       fundAmount \in 0..(MaxTotal + 1), days \in 0..MaxVotingDays :
        /\ Len(milestones) < MaxMilestones
        /\ Do("createMilestone", createMilestone(Storage, sender, description, fundAmount, days))

VoteOnMilestone ==
    \E sender \in Accounts, id \in IdInputs, approve \in BOOLEAN :
        Do("voteOnMilestone", voteOnMilestone(Storage, sender, id, approve))

FinalizeMilestoneVote ==
    \E sender \in Accounts, id \in IdInputs :
        Do("finalizeMilestoneVote", finalizeMilestoneVote(Storage, sender, id))

ReleaseMilestoneFunds ==
    \E sender \in Accounts, id \in IdInputs, accept \in Accepts(owner) :
        Do("releaseMilestoneFunds", releaseMilestoneFunds(Storage, sender, id, accept))

PostUpdate ==
    \E sender \in Accounts, title \in Titles :
        /\ Len(updates) < MaxUpdates
        /\ Do("postUpdate", postUpdate(Storage, sender, title, "h"))

Withdraw ==
    \E sender \in Accounts, accept \in Accepts(owner) :
        Do("withdraw", withdraw(Storage, sender, accept))

Refund ==
    \E sender \in Accounts : \E accept \in Accepts(sender) :
        Do("refund", refund(Storage, sender, accept))

EndCampaign ==
    \E sender \in Accounts :
        Do("endCampaign", endCampaign(Storage, sender))

\* The times at which some comparison of the contract changes its answer.
TimePoints ==
    {deadline}
        \cup UNION {{milestones[i].voteDeadline, milestones[i].voteDeadline + 1} :
                        i \in 1..Len(milestones)}

\* A later block: block.timestamp moves forward to one of the time points.
Tick ==
    /\ \E t \in TimePoints : t > now /\ now' = t
    /\ last' = [op |-> "tick", ev |-> NoEvent, sent |-> NoTransfer]
    /\ UNCHANGED <<owner, fundraisingGoal, deadline, totalDonations,
                   campaignActive, donations, milestones, updates, hasVoted,
                   balance>>

\* The fundraising core: every function but postUpdate.  postUpdate reads
\* only owner and block.timestamp and writes only `updates`, which no other
\* function reads or writes, so the update log is left out of Spec (where
\* `updates` stays empty) and added in SpecAll.
Next ==
    \/ Receive
    \/ Donate
    \/ CreateMilestone
    \/ VoteOnMilestone
    \/ FinalizeMilestoneVote
    \/ ReleaseMilestoneFunds
    \/ Withdraw
    \/ Refund
    \/ EndCampaign
    \/ Tick

Spec == Init /\ [][Next]_vars

NextAll ==
    \/ Next
    \/ PostUpdate

SpecAll == Init /\ [][NextAll]_vars

\* ------------------------------------------------------------------ claims
\* A claim about what a call does is stated on the result of its handler,
\* for every caller and argument, in every reachable state: the actions
\* commit exactly these results.

RECURSIVE SumOver(_, _)
SumOver(f, S) ==
    IF S = {} THEN 0
    ELSE LET a == CHOOSE x \in S : TRUE IN f[a] + SumOver(f, S \ {a})

\* The state of a milestone in the words of the specification.
State(m) ==
    IF m.votingActive THEN "Voting"
    ELSE IF m.approved THEN "Approved" ELSE "Rejected"

NonZeroDonors == {a \in Accounts : donations[a] > 0}

\* C1: in every reachable state the sum of all donor balances equals
\* totalDonations.
C1_SumOfBalancesIsTotal == SumOver(donations, Accounts) = totalDonations

\* A refund has been paid and another donor still holds a balance.
C1_Witness ==
    /\ last.op = "refund"
    /\ totalDonations > 0
    /\ \E a \in Accounts : donations[a] = 0 /\ last.sent.to = a

\* C2: pooled funds leave to the owner only for approved milestones: every
\* step in which the pool shrinks, other than a refund to a donor, is the
\* release of the fundAmount of a milestone that is Approved at that moment.
C2_OnlyApprovedReleasesPayOwner ==
    [][(balance' < balance /\ last'.op # "refund") =>
          \E id \in Ids :
              /\ State(milestones[id + 1]) = "Approved"
              /\ ~milestones[id + 1].fundsReleased
              /\ milestones'[id + 1].fundsReleased
              /\ balance - balance' = milestones[id + 1].fundAmount]_vars

\* C3: when the deadline has passed and the goal is not met, a refund call by
\* any donor with a positive balance succeeds and transfers that donor's
\* full recorded balance to them (the donor accepting the transfer).
C3_RefundAlwaysPays ==
    (now >= deadline /\ totalDonations < fundraisingGoal) =>
        \A d \in NonZeroDonors :
            LET r == refund(Storage, d, TRUE)
            IN /\ r.err = "ok"
               /\ r.sent = [to |-> d, amount |-> donations[d]]

\* C4: when the deadline has passed and totalDonations is below the goal
\* (with contributions in the pool, as in Scenario A), withdraw by the owner
\* fails with WithdrawalNotAvailable and moves no funds.
C4_WithdrawFailsWhenGoalMissed ==
    (now >= deadline /\ totalDonations < fundraisingGoal /\ totalDonations > 0) =>
        LET r == withdraw(Storage, owner, TRUE)
        IN /\ r.err = "WithdrawalNotAvailable"
           /\ r.s.balance = balance

\* C5: fundsReleased only ever changes from false to true (so at most once
\* per milestone), and in every reachable state fundsReleased implies that
\* the milestone is Approved.
C5_ReleasedMonotonicAndApproved ==
    /\ [](\A id \in Ids :
              milestones[id + 1].fundsReleased =>
                  State(milestones[id + 1]) = "Approved")
    /\ [][\A id \in Ids :
              milestones[id + 1].fundsReleased =>
                  milestones'[id + 1].fundsReleased]_vars

\* The funds of a milestone have just been released.
C5_Witness ==
    /\ last.op = "releaseMilestoneFunds"
    /\ \E id \in Ids : milestones[id + 1].fundsReleased

\* Voting on milestone id is open: it is in Voting and its deadline has not
\* passed.
VotingOpen(id) ==
    /\ milestones[id + 1].votingActive
    /\ now <= milestones[id + 1].voteDeadline

\* A vote that returns sets the has-voted flag of its caller, and a caller
\* whose flag is set never votes again on that index nor moves the tallies.
OneVotePerDonor ==
    \A id \in Ids, d \in Accounts, approve \in BOOLEAN :
        LET r == voteOnMilestone(Storage, d, id, approve)
        IN /\ r.err = "ok" => r.s.hasVoted[id][d]
           /\ hasVoted[id][d] => (r.err # "ok" /\ r.s = Storage)

\* The has-voted flag is never cleared.
VotedFlagKept ==
    \A id \in IdInputs, d \in Accounts : hasVoted[id][d] => hasVoted'[id][d]

\* C6 as stated: for every pair (milestone index, donor) at most one vote
\* succeeds, and every later vote by that donor on that index made while the
\* voting window is open fails with AlreadyVoted.
C6_SecondVoteIsAlreadyVoted ==
    /\ OneVotePerDonor
    /\ \A id \in Ids, d \in Accounts, approve \in BOOLEAN :
           (hasVoted[id][d] /\ VotingOpen(id)) =>
               voteOnMilestone(Storage, d, id, approve).err = "AlreadyVoted"

\* C6 amended: for every pair (milestone index, donor) at most one vote
\* succeeds, a later vote never changes the tallies and the has-voted flag
\* is never cleared; while the voting window is open the later vote fails
\* with AlreadyVoted if the voter still has a balance, and with
\* OnlyDonorsCanVote (the check made first) if the voter has been refunded
\* since.
C6_AtMostOneVote ==
    /\ [](OneVotePerDonor)
    /\ [](\A id \in Ids, d \in Accounts, approve \in BOOLEAN :
              (hasVoted[id][d] /\ VotingOpen(id)) =>
                  voteOnMilestone(Storage, d, id, approve).err =
                      IF donations[d] > 0 THEN "AlreadyVoted"
                      ELSE "OnlyDonorsCanVote")
    /\ [][VotedFlagKept]_vars

\* A donor has voted and still has a balance while voting is open, and
\* another voter has been refunded while voting is open.
C6_Witness ==
    \E id \in Ids :
        /\ VotingOpen(id)
        /\ \E d \in Accounts : hasVoted[id][d] /\ donations[d] > 0
        /\ \E d \in Accounts : hasVoted[id][d] /\ donations[d] = 0

\* The result of every call of every function, in the current state.
AllResults ==
    {receive(Storage, a, v) : a \in Accounts, v \in 1..MaxValue}
    \cup {donate(Storage, a, v) : a \in Accounts, v \in 0..MaxValue}
    \cup {createMilestone(Storage, a, d, f, n) :
              a \in Accounts, d \in Descriptions, f \in 0..(MaxTotal + 1),
              n \in 0..MaxVotingDays}
    \cup {voteOnMilestone(Storage, a, id, b) :
              a \in Accounts, id \in IdInputs, b \in BOOLEAN}
    \cup {finalizeMilestoneVote(Storage, a, id) :
              a \in Accounts, id \in IdInputs}
    \cup {releaseMilestoneFunds(Storage, a, id, b) :
              a \in Accounts, id \in IdInputs, b \in BOOLEAN}
    \cup {postUpdate(Storage, a, t, "h") : a \in Accounts, t \in Titles}
    \cup {withdraw(Storage, a, b) : a \in Accounts, b \in BOOLEAN}
    \cup {refund(Storage, a, b) : a \in Accounts, b \in BOOLEAN}
    \cup {endCampaign(Storage, a) : a \in Accounts}

\* C7: every request that fails, with any error kind, leaves the whole state
\* as it was before the call (balances, totalDonations, pool, milestones and
\* tallies, vote records, active flag), emits no event and sends no value.
C7_FailureChangesNothing ==
    \A r \in AllResults :
        r.err # "ok" =>
            /\ r.s = Storage
            /\ r.ev = NoEvent
            /\ r.sent = NoTransfer

\* A refund that has zeroed the balance and decremented the total fails at
\* the transfer: the pool no longer holds the donor's balance.
C7_Witness ==
    \E d \in NonZeroDonors :
        /\ balance < donations[d]
        /\ refund(Storage, d, TRUE).err = "TransferFailed"

\* C8: when the value transfer of refund, releaseMilestoneFunds or withdraw
\* cannot be completed, the call fails with TransferFailed and what it wrote
\* before is undone: the donor's balance and totalDonations are as before
\* (refund), fundsReleased stays false (releaseMilestoneFunds).
C8_FailedTransferRollsBack ==
    /\ \A d \in NonZeroDonors, accept \in BOOLEAN :
           (/\ now >= deadline
            /\ totalDonations < fundraisingGoal
            /\ ~(balance >= donations[d] /\ accept)) =>
               LET r == refund(Storage, d, accept)
               IN /\ r.err = "TransferFailed"
                  /\ r.s.donations[d] = donations[d]
                  /\ r.s.totalDonations = totalDonations
                  /\ r.s = Storage
    /\ \A id \in Ids :
           (/\ milestones[id + 1].approved
            /\ ~milestones[id + 1].fundsReleased
            /\ balance >= milestones[id + 1].fundAmount) =>
               LET r == releaseMilestoneFunds(Storage, owner, id, FALSE)
               IN /\ r.err = "TransferFailed"
                  /\ ~r.s.milestones[id + 1].fundsReleased
                  /\ r.s = Storage
    /\ ((now >= deadline \/ totalDonations >= fundraisingGoal) /\ balance > 0) =>
           LET r == withdraw(Storage, owner, FALSE)
           IN r.err = "TransferFailed" /\ r.s = Storage

\* All three transfers can fail in one state: the owner, a contract that may
\* reject value, holds a balance to refund after the deadline with the goal
\* missed, and a milestone is approved, unreleased and funded.
C8_Witness ==
    /\ refund(Storage, owner, FALSE).err = "TransferFailed"
    /\ withdraw(Storage, owner, FALSE).err = "TransferFailed"
    /\ \E id \in Ids :
           releaseMilestoneFunds(Storage, owner, id, FALSE).err = "TransferFailed"

\* C9 as stated: a milestone starts in Voting, its state changes only through
\* finalizeMilestoneVote and never again afterwards, and every later vote on
\* it fails with VotingNotActive.
C9_LaterVoteIsVotingNotActive ==
    \A id \in Ids, a \in Accounts, approve \in BOOLEAN :
        State(milestones[id + 1]) # "Voting" =>
            voteOnMilestone(Storage, a, id, approve).err = "VotingNotActive"

\* Every step leaves the state of every milestone alone, except a
\* finalizeMilestoneVote that takes one from Voting to Approved or Rejected;
\* a milestone that a step adds is in Voting.
StateChangesOnlyByFinalize ==
    /\ \A id \in Ids :
           State(milestones'[id + 1]) # State(milestones[id + 1]) =>
               /\ State(milestones[id + 1]) = "Voting"
               /\ State(milestones'[id + 1]) \in {"Approved", "Rejected"}
               /\ last'.op = "finalizeMilestoneVote"
               /\ last'.ev \in {<<"MilestoneApproved", id>>,
                                <<"MilestoneRejected", id>>}
    /\ \A i \in (Len(milestones) + 1)..Len(milestones') :
           State(milestones'[i]) = "Voting"
    /\ Len(milestones') >= Len(milestones)

\* C9 amended: a milestone starts in Voting, its state changes only through
\* finalizeMilestoneVote, and once it is Approved or Rejected it never
\* changes again; every later vote on it fails, with VotingNotActive when
\* the caller has a balance and with OnlyDonorsCanVote (the check made
\* first) when the caller has none.
C9_StateMachineTerminal ==
    /\ [][StateChangesOnlyByFinalize]_vars
    /\ [](\A id \in Ids, a \in Accounts, approve \in BOOLEAN :
              State(milestones[id + 1]) # "Voting" =>
                  voteOnMilestone(Storage, a, id, approve).err =
                      IF donations[a] > 0 THEN "VotingNotActive"
                      ELSE "OnlyDonorsCanVote")

\* A milestone has been finalized and then released, with both a caller who
\* has a balance and one who has none.
C9_Witness ==
    /\ \E id \in Ids : State(milestones[id + 1]) = "Approved"
                       /\ milestones[id + 1].fundsReleased
    /\ \E a, b \in Accounts : donations[a] > 0 /\ donations[b] = 0

\* C10: for a milestone in Voting, finalizeMilestoneVote fails with
\* VotingStillActive at any time now <= voteDeadline; at any time
\* now > voteDeadline it succeeds and moves the milestone out of Voting; on a
\* milestone no longer in Voting it fails with VotingNotActive, and a
\* milestone out of Voting stays out of it, so every later call fails so.
C10_FinalizeOnceAfterDeadline ==
    /\ [](\A id \in Ids, a \in Accounts :
              LET m == milestones[id + 1]
                  r == finalizeMilestoneVote(Storage, a, id)
              IN /\ (m.votingActive /\ now <= m.voteDeadline) =>
                         r.err = "VotingStillActive"
                 /\ (m.votingActive /\ now > m.voteDeadline) =>
                         /\ r.err = "ok"
                         /\ ~r.s.milestones[id + 1].votingActive
                 /\ ~m.votingActive => r.err = "VotingNotActive")
    /\ [][\A id \in Ids :
              ~milestones[id + 1].votingActive =>
                  ~milestones'[id + 1].votingActive]_vars

\* A milestone has just been finalized.
C10_Witness ==
    /\ last.op = "finalizeMilestoneVote"
    /\ \E id \in Ids : ~milestones[id + 1].votingActive

\* C11: a finalizeMilestoneVote that returns sets the milestone to Approved
\* exactly when yesVotes > noVotes at that moment; a tie, zero turnout or
\* yesVotes < noVotes sets it to Rejected.
C11_ApprovedIffStrictMajority ==
    \A id \in Ids, a \in Accounts :
        LET m == milestones[id + 1]
            r == finalizeMilestoneVote(Storage, a, id)
        IN r.err = "ok" =>
               /\ State(r.s.milestones[id + 1]) =
                      IF m.yesVotes > m.noVotes THEN "Approved" ELSE "Rejected"
               /\ r.ev = IF m.yesVotes > m.noVotes
                         THEN <<"MilestoneApproved", id>>
                         ELSE <<"MilestoneRejected", id>>

\* A milestone has just been finalized to Rejected on a tie of cast weight.
C11_Witness ==
    \E id \in Ids :
        /\ last = [op |-> "finalizeMilestoneVote",
                   ev |-> <<"MilestoneRejected", id>>, sent |-> NoTransfer]
        /\ milestones[id + 1].yesVotes = milestones[id + 1].noVotes
        /\ milestones[id + 1].yesVotes > 0
        /\ State(milestones[id + 1]) = "Rejected"

\* The yes and no tallies of every milestone, the part of the milestones a
\* vote writes.
Tallies(ms) ==
    [i \in 1..Len(ms) |-> <<ms[i].yesVotes, ms[i].noVotes>>]

\* C13: the weight of a vote is a snapshot: a later donate or refund, by the
\* voter or by anyone else, leaves yesVotes and noVotes of every milestone
\* unchanged.
C13_TalliesAreSnapshots ==
    \A d \in Accounts :
        /\ \A value \in 0..MaxValue :
               Tallies(donate(Storage, d, value).s.milestones) = Tallies(milestones)
        /\ \A accept \in BOOLEAN :
               Tallies(refund(Storage, d, accept).s.milestones) = Tallies(milestones)

\* The only voter of a milestone has just donated again: the tallies hold the
\* weight of the vote, which is now less than the voter's balance.
C13_Witness ==
    \E id \in Ids, d \in Accounts :
        /\ last.op = "donate" /\ last.ev[2] = d
        /\ hasVoted[id][d]
        /\ \A e \in Accounts \ {d} : ~hasVoted[id][e]
        /\ milestones[id + 1].yesVotes + milestones[id + 1].noVotes > 0
        /\ milestones[id + 1].yesVotes + milestones[id + 1].noVotes < donations[d]

\* C14: donate returns exactly when now < deadline and the value is positive;
\* at now >= deadline (now = deadline included) it reverts with
\* FundraisingClosed, also for a zero value; a zero value before the deadline
\* reverts with InvalidDonationAmount.
C14_DonateGate ==
    \A d \in Accounts, value \in 0..MaxValue :
        LET r == donate(Storage, d, value) IN
        /\ r.err = "ok" <=> (now < deadline /\ value > 0)
        /\ now >= deadline => r.err = "FundraisingClosed"
        /\ (now < deadline /\ value = 0) => r.err = "InvalidDonationAmount"

\* The clock stands exactly at the deadline, where a positive and a zero
\* donation are both refused as closed.
C14_Witness ==
    /\ now = deadline
    /\ last.op = "tick"
    /\ donate(Storage, "x", 1).err = "FundraisingClosed"
    /\ donate(Storage, "x", 0).err = "FundraisingClosed"

\* C15: a donor donating a and then b, both positive and before the deadline,
\* raises that donor's balance and totalDonations by a + b and the pool by
\* a + b, changes no other donor's balance, and ends in the same storage as
\* donating b and then a.
C15_DonationsAdd ==
    \A d \in Accounts, a \in 1..MaxValue, b \in 1..MaxValue :
        now < deadline =>
            LET ab == donate(donate(Storage, d, a).s, d, b)
                ba == donate(donate(Storage, d, b).s, d, a)
            IN /\ ab.err = "ok"
               /\ ab.s.donations[d] = donations[d] + a + b
               /\ ab.s.totalDonations = totalDonations + a + b
               /\ ab.s.balance = balance + a + b
               /\ \A e \in Accounts \ {d} : ab.s.donations[e] = donations[e]
               /\ ab.s = ba.s

\* A donor who held 1 has just donated 2 and now holds 3.
C15_Witness ==
    \E d \in Accounts :
        /\ last = [op |-> "donate", ev |-> <<"DonationReceived", d, 2>>,
                   sent |-> NoTransfer]
        /\ donations[d] = 3
        /\ totalDonations = 3

\* What a refund that returns does to the storage: the caller's balance is
\* zeroed, totalDonations and the pool fall by the amount, which is sent to
\* the caller.
RefundPaid(r, d) ==
    /\ r.err = "ok"
    /\ r.s.donations[d] = 0
    /\ r.s.totalDonations = totalDonations - donations[d]
    /\ r.s.balance = balance - donations[d]
    /\ r.sent = [to |-> d, amount |-> donations[d]]
    /\ \A e \in Accounts \ {d} : r.s.donations[e] = donations[e]

\* C16 as stated: refund reverts with RefundNotAvailable when now < deadline
\* or totalDonations >= fundraisingGoal; otherwise with NoDonationToRefund for
\* a caller whose balance is 0; otherwise it pays the caller's balance.
C16_RefundPaysOutsideTwoErrors ==
    \A d \in Accounts : \A accept \in Accepts(d) :
        LET r == refund(Storage, d, accept) IN
        IF now < deadline \/ totalDonations >= fundraisingGoal
        THEN r.err = "RefundNotAvailable"
        ELSE IF donations[d] = 0
        THEN r.err = "NoDonationToRefund"
        ELSE RefundPaid(r, d)

\* C16 amended: as above, except that when the transfer cannot be completed
\* (the caller rejects it or the pool holds less than the caller's balance)
\* refund reverts with TransferFailed and changes nothing.
C16_RefundCases ==
    \A d \in Accounts, accept \in BOOLEAN :
        LET r == refund(Storage, d, accept) IN
        IF now < deadline \/ totalDonations >= fundraisingGoal
        THEN r.err = "RefundNotAvailable" /\ r.s = Storage
        ELSE IF donations[d] = 0
        THEN r.err = "NoDonationToRefund" /\ r.s = Storage
        ELSE IF accept /\ balance >= donations[d]
        THEN RefundPaid(r, d)
        ELSE r.err = "TransferFailed" /\ r.s = Storage /\ r.sent = NoTransfer

\* One donor has just been refunded and another, whose balance exceeds what
\* is left in the pool, cannot be: that refund ends in TransferFailed.
C16_Witness ==
    \E d \in Accounts, e \in Accounts :
        /\ last.op = "refund" /\ last.sent.to = d /\ last.sent.amount > 0
        /\ donations[d] = 0
        /\ now >= deadline /\ totalDonations < fundraisingGoal
        /\ donations[e] > balance
        /\ refund(Storage, e, TRUE).err = "TransferFailed"

\* C17 as stated: withdraw by the owner reverts with WithdrawalNotAvailable
\* exactly when now < deadline and totalDonations < fundraisingGoal; otherwise
\* it reverts with NoFundsToWithdraw if the pool is 0 and otherwise succeeds.
C17_WithdrawSucceedsOutsideTwoErrors ==
    \A accept \in Accepts(owner) :
        LET r == withdraw(Storage, owner, accept) IN
        /\ r.err = "WithdrawalNotAvailable"
               <=> (now < deadline /\ totalDonations < fundraisingGoal)
        /\ (now >= deadline \/ totalDonations >= fundraisingGoal) =>
               IF balance = 0 THEN r.err = "NoFundsToWithdraw" ELSE r.err = "ok"

\* C17 amended: as above, except that with a non-empty pool the call
\* succeeds only if the owner accepts the transfer and otherwise reverts with
\* TransferFailed, changing nothing.
C17_WithdrawCases ==
    \A accept \in BOOLEAN :
        LET r == withdraw(Storage, owner, accept) IN
        /\ r.err = "WithdrawalNotAvailable"
               <=> (now < deadline /\ totalDonations < fundraisingGoal)
        /\ (now >= deadline \/ totalDonations >= fundraisingGoal) =>
               IF balance = 0 THEN r.err = "NoFundsToWithdraw"
               ELSE IF accept THEN r.err = "ok"
               ELSE r.err = "TransferFailed" /\ r.s = Storage
                        /\ r.sent = NoTransfer

\* The goal is met before the deadline and the pool is not empty: withdraw is
\* past both checks, succeeds for an accepting owner and ends in
\* TransferFailed for a rejecting one.
C17_Witness ==
    /\ now < deadline /\ totalDonations >= fundraisingGoal
    /\ balance > 0
    /\ last.op = "donate"
    /\ withdraw(Storage, owner, TRUE).err = "ok"
    /\ withdraw(Storage, owner, FALSE).err = "TransferFailed"

\* C18: a withdraw that returns sends the whole pool to the owner, whatever
\* unreleased milestones ask for, and leaves the pool at 0 and the milestones
\* as they were; a withdraw that follows it reverts with NoFundsToWithdraw,
\* and only a donation raises the pool.
C18_WithdrawTakesWholePool ==
    /\ \A accept \in BOOLEAN :
           LET r == withdraw(Storage, owner, accept) IN
           r.err = "ok" =>
               /\ r.sent = [to |-> owner, amount |-> balance]
               /\ r.s.balance = 0
               /\ r.s.milestones = milestones
               /\ \A again \in BOOLEAN :
                      withdraw(r.s, owner, again).err = "NoFundsToWithdraw"
    /\ \A r \in AllResults :
           r.s.balance > balance =>
               r.ev # NoEvent /\ r.ev[1] = "DonationReceived"

\* The owner has just withdrawn a pool that covered an approved, unreleased
\* milestone; the pool is empty and a second withdraw finds nothing.
C18_Witness ==
    \E id \in Ids :
        /\ last.op = "withdraw"
        /\ last.sent.amount >= milestones[id + 1].fundAmount
        /\ State(milestones[id + 1]) = "Approved"
        /\ ~milestones[id + 1].fundsReleased
        /\ balance = 0
        /\ withdraw(Storage, owner, TRUE).err = "NoFundsToWithdraw"

\* What a releaseMilestoneFunds that returns does: fundsReleased is set on
\* the milestone and exactly its fundAmount leaves the pool for the owner.
ReleasePaid(r, id) ==
    LET m == milestones[id + 1] IN
    /\ r.err = "ok"
    /\ r.s.milestones[id + 1] = [m EXCEPT !.fundsReleased = TRUE]
    /\ r.sent = [to |-> owner, amount |-> m.fundAmount]
    /\ r.s.balance = balance - m.fundAmount

\* C19 as stated: releaseMilestoneFunds by the owner reverts with
\* MilestoneNotApproved on a Voting or Rejected milestone, with
\* FundsAlreadyReleased on an Approved and released one, with
\* InsufficientContractBalance on an Approved, unreleased one when the pool is
\* below fundAmount, and otherwise releases.
C19_ReleasePaysOutsideThreeErrors ==
    \A id \in Ids : \A accept \in Accepts(owner) :
        LET m == milestones[id + 1]
            r == releaseMilestoneFunds(Storage, owner, id, accept)
        IN IF State(m) \in {"Voting", "Rejected"}
           THEN r.err = "MilestoneNotApproved"
           ELSE IF m.fundsReleased THEN r.err = "FundsAlreadyReleased"
           ELSE IF balance < m.fundAmount
           THEN r.err = "InsufficientContractBalance"
           ELSE ReleasePaid(r, id)

\* C19 amended: as above, except that past the three checks the call releases
\* only if the owner accepts the transfer and otherwise reverts with
\* TransferFailed, changing nothing.
C19_ReleaseCases ==
    \A id \in Ids, accept \in BOOLEAN :
        LET m == milestones[id + 1]
            r == releaseMilestoneFunds(Storage, owner, id, accept)
        IN IF State(m) \in {"Voting", "Rejected"}
           THEN r.err = "MilestoneNotApproved" /\ r.s = Storage
           ELSE IF m.fundsReleased
           THEN r.err = "FundsAlreadyReleased" /\ r.s = Storage
           ELSE IF balance < m.fundAmount
           THEN r.err = "InsufficientContractBalance" /\ r.s = Storage
           ELSE IF accept THEN ReleasePaid(r, id)
           ELSE r.err = "TransferFailed" /\ r.s = Storage
                    /\ r.sent = NoTransfer

\* A milestone has just been approved and the pool, exactly its fundAmount,
\* covers it: the release is past the three checks, pays an accepting owner
\* and ends in TransferFailed for a rejecting one.
C19_Witness ==
    \E id \in Ids :
        /\ last = [op |-> "finalizeMilestoneVote",
                   ev |-> <<"MilestoneApproved", id>>, sent |-> NoTransfer]
        /\ ~milestones[id + 1].fundsReleased
        /\ balance = milestones[id + 1].fundAmount
        /\ releaseMilestoneFunds(Storage, owner, id, TRUE).err = "ok"
        /\ releaseMilestoneFunds(Storage, owner, id, FALSE).err = "TransferFailed"

\* C20: createMilestone, releaseMilestoneFunds, withdraw, endCampaign and
\* postUpdate called by anyone but the owner revert with NotOwner, whatever
\* the arguments and the state, and the owner is the deployer in every
\* reachable state.
C20_OnlyOwner ==
    /\ owner = Deployer
    /\ \A a \in Accounts \ {owner} :
           /\ \A d \in Descriptions, f \in 0..(MaxTotal + 1),
                 n \in 0..MaxVotingDays :
                  createMilestone(Storage, a, d, f, n) = Revert(Storage, "NotOwner")
           /\ \A id \in IdInputs, accept \in BOOLEAN :
                  releaseMilestoneFunds(Storage, a, id, accept)
                      = Revert(Storage, "NotOwner")
           /\ \A accept \in BOOLEAN :
                  withdraw(Storage, a, accept) = Revert(Storage, "NotOwner")
           /\ endCampaign(Storage, a) = Revert(Storage, "NotOwner")
           /\ \A t \in Titles :
                  postUpdate(Storage, a, t, "h") = Revert(Storage, "NotOwner")

\* The owner has just posted an update; the pool is not empty, a milestone is
\* approved and unreleased and withdrawal is open, so each owner-only call
\* would go through for the owner, and a donor making it gets NotOwner.
C20_Witness ==
    \E a \in Accounts \ {owner}, id \in Ids :
        /\ last.op = "postUpdate"
        /\ donations[a] > 0
        /\ withdraw(Storage, owner, TRUE).err = "ok"
        /\ releaseMilestoneFunds(Storage, owner, id, TRUE).err = "ok"
        /\ createMilestone(Storage, owner, "m", 1, 1).err = "ok"
        /\ withdraw(Storage, a, TRUE).err = "NotOwner"
        /\ releaseMilestoneFunds(Storage, a, id, TRUE).err = "NotOwner"

\* The storages in which a vote is examined: the current one and, the code
\* putting no limit on the number of milestones, the ones the owner reaches
\* from it by creating one more milestone, each of them as it is and after
\* one more vote by any donor. With a second milestone created this way a
\* vote has another milestone to leave alone.
WithOneMoreMilestone ==
    {Storage} \cup
    {createMilestone(Storage, owner, "m", f, n).s :
         f \in 1..MaxTotal, n \in 1..MaxVotingDays}

AfterOneMoreVote(T) ==
    {T} \cup
    {voteOnMilestone(T, a, id, b).s :
         a \in Accounts, id \in IdInputs, b \in BOOLEAN}

VoteStorages == UNION {AfterOneMoreVote(T) : T \in WithOneMoreMilestone}

\* C12: a voteOnMilestone that returns adds exactly the voter's balance at
\* the time of the call to one tally of the milestone (yesVotes for approve,
\* noVotes otherwise), leaves its other tally and fields and every other
\* milestone unchanged, sets hasVoted for the pair (id, voter) and nothing
\* else.
C12_VoteAddsWeightToOneTally ==
    \A T \in VoteStorages, a \in Accounts, id \in IdInputs, approve \in BOOLEAN :
        LET r == voteOnMilestone(T, a, id, approve)
            w == T.donations[a]
        IN r.err = "ok" =>
               /\ w > 0
               /\ r.s.milestones[id + 1] =
                      IF approve
                      THEN [T.milestones[id + 1] EXCEPT !.yesVotes = @ + w]
                      ELSE [T.milestones[id + 1] EXCEPT !.noVotes = @ + w]
               /\ Len(r.s.milestones) = Len(T.milestones)
               /\ \A j \in 1..Len(T.milestones) :
                      j # id + 1 => r.s.milestones[j] = T.milestones[j]
               /\ r.s.hasVoted = [T.hasVoted EXCEPT ![id][a] = TRUE]
               /\ ~T.hasVoted[id][a]
               /\ r.s = [T EXCEPT !.milestones = r.s.milestones,
                                  !.hasVoted = r.s.hasVoted]
               /\ r.ev = <<"VoteCast", id, a, approve, w>>

\* A donor has just voted on milestone 0, whose tallies hold that weight, and
\* the owner can create milestone 1, on which a donor can then vote while
\* milestone 0 holds its votes.
C12_Witness ==
    /\ last.op = "voteOnMilestone" /\ last.ev[2] = 0
    /\ Len(milestones) = 1
    /\ milestones[1].yesVotes + milestones[1].noVotes = last.ev[5]
    /\ hasVoted[0][last.ev[3]]
    /\ \E T \in WithOneMoreMilestone, a \in Accounts :
           /\ Len(T.milestones) = 2
           /\ voteOnMilestone(T, a, 1, FALSE).err = "ok"

\* What a createMilestone that returns does to the storage T: exactly one
\* milestone is appended, at the index that was the count, with the given
\* description and fundAmount, voteDeadline = now + the voting days, state
\* Voting, both tallies 0 and fundsReleased false; the milestones before it
\* and the rest of the storage are unchanged.
MilestoneAppended(T, r, description, fundAmount, votingDurationDays) ==
    LET N == Len(T.milestones) IN
    /\ Len(r.s.milestones) = N + 1
    /\ r.s.milestones[N + 1] =
           [description |-> description, fundAmount |-> fundAmount,
            voteDeadline |-> now + (votingDurationDays * DAY),
            yesVotes |-> 0, noVotes |-> 0, approved |-> FALSE,
            fundsReleased |-> FALSE, votingActive |-> TRUE]
    /\ State(r.s.milestones[N + 1]) = "Voting"
    /\ \A i \in 1..N : r.s.milestones[i] = T.milestones[i]
    /\ r.s = [T EXCEPT !.milestones = r.s.milestones]
    /\ r.ev = <<"MilestoneCreated", N, description, fundAmount>>

\* C21 as stated: createMilestone by the owner reverts with
\* InvalidMilestoneAmount when fundAmount is 0 or greater than the pool, and
\* when it returns it has appended exactly one milestone as described.
C21_InvalidAmountWhateverDescription ==
    \A description \in Descriptions, fundAmount \in 0..(MaxTotal + 1),
       n \in 0..MaxVotingDays :
        LET r == createMilestone(Storage, owner, description, fundAmount, n) IN
        /\ (fundAmount = 0 \/ fundAmount > balance) =>
               r.err = "InvalidMilestoneAmount"
        /\ r.err = "ok" =>
               MilestoneAppended(Storage, r, description, fundAmount, n)

\* C21 amended: createMilestone by the owner reverts with
\* InvalidMilestoneAmount exactly when the description is not empty and
\* fundAmount is 0 or greater than the pool (an empty description reverts
\* with EmptyDescription first), and when it returns it has appended exactly
\* one milestone as described; checked on storages of up to two milestones.
C21_CreateMilestoneAppends ==
    \A T \in WithOneMoreMilestone, description \in Descriptions,
       fundAmount \in 0..(MaxTotal + 1), n \in 0..MaxVotingDays :
        LET r == createMilestone(T, owner, description, fundAmount, n) IN
        /\ r.err = "InvalidMilestoneAmount"
               <=> (description # "" /\ (fundAmount = 0 \/ fundAmount > T.balance))
        /\ description = "" => r.err = "EmptyDescription"
        /\ r.err = "ok" => MilestoneAppended(T, r, description, fundAmount, n)
        /\ r.err # "ok" => r.s = T

\* The owner has just created milestone 0 asking for the whole pool; it is in
\* Voting with zero tallies, one unit more would have been refused, and a
\* further milestone can be appended after it.
C21_Witness ==
    /\ last.op = "createMilestone" /\ last.ev[2] = 0
    /\ Len(milestones) = 1
    /\ milestones[1].fundAmount = balance
    /\ State(milestones[1]) = "Voting"
    /\ milestones[1].voteDeadline = now + DAY
    /\ createMilestone(Storage, owner, "m", balance + 1, 1).err
           = "InvalidMilestoneAmount"
    /\ createMilestone(Storage, owner, "m", 0, 1).err = "InvalidMilestoneAmount"
    /\ createMilestone(Storage, owner, "m", 1, 1).err = "ok"

\* The error kind the contract gives for a milestone index that is out of
\* range, read off the three functions that take an index.
OutOfRangeErrors ==
    {voteOnMilestone([Storage EXCEPT !.donations["x"] = 1], "x",
                     Len(milestones), TRUE).err,
     finalizeMilestoneVote(Storage, "x", Len(milestones)).err,
     releaseMilestoneFunds(Storage, owner, Len(milestones), TRUE).err}

\* C22 as stated: createMilestone by the owner with a non-empty description,
\* a valid fundAmount and a voting duration of 0 reverts with an error kind
\* that is not the one given for an out-of-range index.
C22_ZeroDurationHasOwnError ==
    \A fundAmount \in 1..MaxTotal :
        fundAmount <= balance =>
            LET r == createMilestone(Storage, owner, "m", fundAmount, 0) IN
            /\ r.err # "ok"
            /\ r.err \notin OutOfRangeErrors

\* C22 amended: that call reverts with InvalidMilestone, the very error kind
\* given for an out-of-range index, and changes nothing.
C22_ZeroDurationIsInvalidMilestone ==
    /\ OutOfRangeErrors = {"InvalidMilestone"}
    /\ \A fundAmount \in 1..MaxTotal :
           fundAmount <= balance =>
               createMilestone(Storage, owner, "m", fundAmount, 0)
                   = Revert(Storage, "InvalidMilestone")

\* The pool is not empty, so the owner can ask for a valid amount: with one
\* voting day the milestone is created, with zero days the call is refused
\* as InvalidMilestone.
C22_Witness ==
    /\ balance > 0
    /\ last.op = "donate"
    /\ createMilestone(Storage, owner, "m", balance, 1).err = "ok"
    /\ createMilestone(Storage, owner, "m", balance, 0).err = "InvalidMilestone"

\* C23: the errors of voteOnMilestone, in the order the claim lists them:
\* OnlyDonorsCanVote when the caller's balance is 0, also for an out-of-range
\* index; else InvalidMilestone when the index is out of range; else
\* VotingNotActive when the milestone is not in Voting or now > voteDeadline;
\* else AlreadyVoted when the caller has voted on that index; else the vote
\* returns, in particular at now = voteDeadline.
C23_VoteErrorsInOrder ==
    \A a \in Accounts, id \in IdInputs, approve \in BOOLEAN :
        LET r == voteOnMilestone(Storage, a, id, approve) IN
        IF donations[a] = 0 THEN r = Revert(Storage, "OnlyDonorsCanVote")
        ELSE IF id \notin Ids THEN r = Revert(Storage, "InvalidMilestone")
        ELSE IF State(milestones[id + 1]) # "Voting"
                \/ now > milestones[id + 1].voteDeadline
        THEN r = Revert(Storage, "VotingNotActive")
        ELSE IF hasVoted[id][a] THEN r = Revert(Storage, "AlreadyVoted")
        ELSE r.err = "ok"

\* A donor has just voted at exactly now = voteDeadline; the vote was taken,
\* the same donor voting again gets AlreadyVoted, and a caller without a
\* balance gets OnlyDonorsCanVote even for an index that does not exist.
C23_Witness ==
    \E id \in Ids, a \in Accounts, z \in Accounts :
        /\ last.op = "voteOnMilestone" /\ last.ev[2] = id /\ last.ev[3] = a
        /\ now = milestones[id + 1].voteDeadline
        /\ voteOnMilestone(Storage, a, id, TRUE).err = "AlreadyVoted"
        /\ donations[z] = 0
        /\ voteOnMilestone(Storage, z, Len(milestones), TRUE).err
               = "OnlyDonorsCanVote"
        /\ voteOnMilestone(Storage, a, Len(milestones), TRUE).err
               = "InvalidMilestone"

\* C24: finalizeMilestoneVote gives, in the same state and for the same
\* index, the same outcome (return or error kind, resulting storage, event)
\* to every caller: owner, donor or stranger.
C24_FinalizeSameForEveryCaller ==
    \A id \in IdInputs, a \in Accounts, b \in Accounts :
        finalizeMilestoneVote(Storage, a, id) = finalizeMilestoneVote(Storage, b, id)

\* The voting period of a milestone is over and it is not finalized yet; the
\* owner, a donor and an account that never donated would each finalize it.
C24_Witness ==
    \E id \in Ids, d \in Accounts \ {owner}, z \in Accounts \ {owner} :
        /\ last.op = "tick"
        /\ donations[d] > 0 /\ donations[z] = 0
        /\ milestones[id + 1].yesVotes + milestones[id + 1].noVotes > 0
        /\ finalizeMilestoneVote(Storage, owner, id).err = "ok"
        /\ finalizeMilestoneVote(Storage, d, id).err = "ok"
        /\ finalizeMilestoneVote(Storage, z, id).err = "ok"

\* A step changes campaignActive only from true to false and only as an
\* endCampaign that returned, which it does for the owner alone; every other
\* call, and endCampaign by anyone else, leaves the flag as it is.
ActiveOnlyFalls ==
    /\ campaignActive' # campaignActive =>
           /\ campaignActive /\ ~campaignActive'
           /\ last'.op = "endCampaign"
           /\ endCampaign(Storage, owner).s.campaignActive = campaignActive'
    /\ \A a \in Accounts \ {owner} :
           endCampaign(Storage, a).s.campaignActive = campaignActive
    /\ ~campaignActive => ~campaignActive'

\* C25: campaignActive is true after construction, becomes false only through
\* endCampaign by the owner, and once false is false in every later state.
C25_ActiveFlagOneWay ==
    /\ campaignActive = TRUE
    /\ [][ActiveOnlyFalls]_vars

\* The campaign was ended and calls have been made since: a vote has just
\* been cast and the flag is still false.
C25_Witness ==
    /\ ~campaignActive
    /\ last.op = "voteOnMilestone"
    /\ endCampaign(Storage, owner).s.campaignActive = FALSE

\* The storage T after the owner called endCampaign, and the same for the
\* result of a call.
Ended(T) == [T EXCEPT !.campaignActive = FALSE]

\* Two results of one call, made on a storage and on the same storage with
\* the campaign ended, are the same outcome: same error kind, event and
\* transfer, and storages that differ in campaignActive at most.
SameOutcome(r, e) ==
    /\ r.err = e.err
    /\ r.ev = e.ev
    /\ r.sent = e.sent
    /\ Ended(r.s) = e.s

\* C26: endCampaign is advisory. Every donate, createMilestone,
\* voteOnMilestone, finalizeMilestoneVote, releaseMilestoneFunds, withdraw and
\* refund call gives the same outcome on the current storage and on the
\* current storage with the campaign ended, and leaves the two storages
\* differing in campaignActive only; so two executions of the same calls at
\* the same times that differ in endCampaign calls only agree step by step
\* on every result, balance, the pool and the milestones.
C26_EndCampaignIsAdvisory ==
    \A a \in Accounts :
        /\ \A v \in 0..MaxValue :
               SameOutcome(donate(Storage, a, v), donate(Ended(Storage), a, v))
        /\ \A d \in Descriptions, f \in 0..(MaxTotal + 1), n \in 0..MaxVotingDays :
               SameOutcome(createMilestone(Storage, a, d, f, n),
                           createMilestone(Ended(Storage), a, d, f, n))
        /\ \A id \in IdInputs, b \in BOOLEAN :
               /\ SameOutcome(voteOnMilestone(Storage, a, id, b),
                              voteOnMilestone(Ended(Storage), a, id, b))
               /\ SameOutcome(releaseMilestoneFunds(Storage, a, id, b),
                              releaseMilestoneFunds(Ended(Storage), a, id, b))
        /\ \A id \in IdInputs :
               SameOutcome(finalizeMilestoneVote(Storage, a, id),
                           finalizeMilestoneVote(Ended(Storage), a, id))
        /\ \A b \in BOOLEAN :
               /\ SameOutcome(withdraw(Storage, a, b), withdraw(Ended(Storage), a, b))
               /\ SameOutcome(refund(Storage, a, b), refund(Ended(Storage), a, b))

\* The owner ended the campaign while it was still running and a donation
\* has just been taken all the same; the same donation is taken on the
\* storage with the flag still set.
C26_Witness ==
    /\ ~campaignActive
    /\ last.op = "donate"
    /\ now < deadline
    /\ \E a \in Accounts :
           /\ donate(Storage, a, 1).err = "ok"
           /\ donate([Storage EXCEPT !.campaignActive = TRUE], a, 1).err = "ok"

\* C27: a plain value transfer to the contract, which runs receive and not
\* donate, always reverts with UseDonateFunction and leaves the pool, every
\* donor balance and totalDonations as they were.
C27_DirectTransferRejected ==
    \A a \in Accounts, value \in 0..MaxValue :
        LET r == receive(Storage, a, value) IN
        /\ r.err = "UseDonateFunction"
        /\ r.s.balance = balance
        /\ r.s.donations = donations
        /\ r.s.totalDonations = totalDonations
        /\ r.s = Storage
        /\ r.ev = NoEvent /\ r.sent = NoTransfer

\* Donations are open and one has just been taken through donate; the same
\* amount sent directly is rejected.
C27_Witness ==
    /\ last.op = "donate"
    /\ now < deadline
    /\ balance > 0
    /\ donate(Storage, "x", 1).err = "ok"
    /\ receive(Storage, "x", 1).err = "UseDonateFunction"

\* The results of every function of the contract called on the storage T, for
\* every caller and argument.
ResultsOn(T) ==
    {receive(T, a, v) : a \in Accounts, v \in 1..MaxValue}
    \cup {donate(T, a, v) : a \in Accounts, v \in 0..MaxValue}
    \cup {createMilestone(T, a, d, f, n) :
              a \in Accounts, d \in Descriptions, f \in 0..(MaxTotal + 1),
              n \in 0..MaxVotingDays}
    \cup {voteOnMilestone(T, a, id, b) :
              a \in Accounts, id \in IdInputs, b \in BOOLEAN}
    \cup {finalizeMilestoneVote(T, a, id) : a \in Accounts, id \in IdInputs}
    \cup {releaseMilestoneFunds(T, a, id, b) :
              a \in Accounts, id \in IdInputs, b \in BOOLEAN}
    \cup {postUpdate(T, a, t, "h") : a \in Accounts, t \in Titles}
    \cup {withdraw(T, a, b) : a \in Accounts, b \in BOOLEAN}
    \cup {refund(T, a, b) : a \in Accounts, b \in BOOLEAN}
    \cup {endCampaign(T, a) : a \in Accounts}

\* The milestones after are the milestones before, possibly with more
\* appended, each with the description, fundAmount and voteDeadline it had.
FixedFieldsKept(before, after) ==
    /\ Len(after) >= Len(before)
    /\ \A i \in 1..Len(before) :
           /\ after[i].fundAmount = before[i].fundAmount
           /\ after[i].voteDeadline = before[i].voteDeadline
           /\ after[i].description = before[i].description

\* C28: the milestone list is append-only with fixed fields immutable: no
\* step and no call, on the current storage or on one with a further
\* milestone, lowers the count or changes the fundAmount or voteDeadline of
\* an existing milestone; fundraisingGoal and deadline never change.
C28_MilestonesAppendOnly ==
    /\ [](\A T \in WithOneMoreMilestone : \A r \in ResultsOn(T) :
              FixedFieldsKept(T.milestones, r.s.milestones))
    /\ [][/\ FixedFieldsKept(milestones, milestones')
          /\ fundraisingGoal' = fundraisingGoal
          /\ deadline' = deadline]_vars

\* The owner has just been paid an approved milestone, which still shows the
\* fundAmount that was sent and its voteDeadline, now in the past.
C28_Witness ==
    \E id \in Ids :
        /\ last.op = "releaseMilestoneFunds"
        /\ milestones[id + 1].fundsReleased
        /\ milestones[id + 1].fundAmount = last.sent.amount
        /\ milestones[id + 1].fundAmount > 0
        /\ milestones[id + 1].voteDeadline < now
        /\ fundraisingGoal = Goal

\* C29: nothing reserves the funds of an approved milestone. Whenever a
\* milestone is Approved and not released, withdrawal is open and the pool is
\* not empty, the owner's withdraw goes through and leaves a storage in which
\* releaseMilestoneFunds for that milestone reverts with
\* InsufficientContractBalance; the witness is a reachable state of that kind.
C29_WithdrawStarvesApprovedMilestone ==
    \A id \in Ids :
        (/\ State(milestones[id + 1]) = "Approved"
         /\ ~milestones[id + 1].fundsReleased
         /\ balance > 0
         /\ (now >= deadline \/ totalDonations >= fundraisingGoal))
        => LET w == withdraw(Storage, owner, TRUE) IN
           /\ w.err = "ok"
           /\ w.s.balance < milestones[id + 1].fundAmount
           /\ releaseMilestoneFunds(w.s, owner, id, TRUE).err
                  = "InsufficientContractBalance"

\* A milestone was approved while the pool covered it and the owner has just
\* withdrawn the pool: the milestone is Approved, not released, and its
\* release fails with InsufficientContractBalance.
C29_Witness ==
    \E id \in Ids :
        /\ last.op = "withdraw"
        /\ last.sent.amount >= milestones[id + 1].fundAmount
        /\ State(milestones[id + 1]) = "Approved"
        /\ ~milestones[id + 1].fundsReleased
        /\ balance < milestones[id + 1].fundAmount
        /\ releaseMilestoneFunds(Storage, owner, id, TRUE).err
               = "InsufficientContractBalance"
        /\ releaseMilestoneFunds(Storage, owner, id, FALSE).err
               = "InsufficientContractBalance"

\* The result r emits one event of one of the given kinds if the call
\* returned and none if it reverted.
Emits(r, kinds) ==
    IF r.err = "ok" THEN r.ev # NoEvent /\ r.ev[1] \in kinds
    ELSE r.ev = NoEvent

\* The seven requests the interface table gives an event for emit it exactly
\* when they return: DonationReceived, MilestoneCreated, VoteCast,
\* MilestoneApproved or MilestoneRejected, MilestoneFundsReleased,
\* FundsWithdrawn, RefundIssued.
SevenRequestsEmit ==
    \A a \in Accounts :
        /\ \A v \in 0..MaxValue :
               Emits(donate(Storage, a, v), {"DonationReceived"})
        /\ \A d \in Descriptions, f \in 0..(MaxTotal + 1), n \in 0..MaxVotingDays :
               Emits(createMilestone(Storage, a, d, f, n), {"MilestoneCreated"})
        /\ \A id \in IdInputs, b \in BOOLEAN :
               /\ Emits(voteOnMilestone(Storage, a, id, b), {"VoteCast"})
               /\ Emits(releaseMilestoneFunds(Storage, a, id, b),
                        {"MilestoneFundsReleased"})
        /\ \A id \in IdInputs :
               Emits(finalizeMilestoneVote(Storage, a, id),
                     {"MilestoneApproved", "MilestoneRejected"})
        /\ \A b \in BOOLEAN :
               /\ Emits(withdraw(Storage, a, b), {"FundsWithdrawn"})
               /\ Emits(refund(Storage, a, b), {"RefundIssued"})

\* C30 as stated: each of the eight state-changing requests, endCampaign
\* included, emits an event when it returns and none when it reverts.
C30_EveryRequestEmits ==
    /\ SevenRequestsEmit
    /\ \A a \in Accounts :
           LET r == endCampaign(Storage, a) IN
           IF r.err = "ok" THEN r.ev # NoEvent ELSE r.ev = NoEvent

\* C30 amended: the seven requests with an event in the interface table emit
\* it exactly when they return; endCampaign emits nothing, whether it returns
\* or reverts.
C30_AllButEndCampaignEmit ==
    /\ SevenRequestsEmit
    /\ \A a \in Accounts : endCampaign(Storage, a).ev = NoEvent
    /\ endCampaign(Storage, owner).err = "ok"

\* The owner has just ended the campaign: the call returned, the flag is
\* cleared and no event was emitted.
C30_Witness ==
    /\ last = [op |-> "endCampaign", ev |-> NoEvent, sent |-> NoTransfer]
    /\ ~campaignActive
    /\ balance > 0

\* donate has no cap: donations are taken until the deadline, whatever the
\* total. Donate stops at MaxTotal, which is the goal; this action takes the
\* total one unit further, and SpecOver is Spec with it.
DonateBeyondGoal ==
    \E sender \in Accounts, value \in 1..MaxValue :
        /\ totalDonations + value <= MaxTotal + 1
        /\ Do("donate", donate(Storage, sender, value))

NextOver == Next \/ DonateBeyondGoal

SpecOver == Init /\ [][NextOver]_vars

\* C31: progressPercentage returns a percentage between 0 and 100 inclusive
\* in every reachable state.
C31_ProgressAtMost100 ==
    progressPercentage \in 0..100

\* The storage in which the recipient's code runs during the value transfer
\* of refund, releaseMilestoneFunds and withdraw, for a call that has passed
\* its checks: the writes the function makes before the call are made and the
\* value has left the pool. None of the three writes anything after the call.
\* (The first operator is refund making its writes after the call instead.)
refundDuringTransfer_writesAfterCall(s, sender) ==
    AfterCall(s, s.donations[sender])

refundDuringTransfer(s, sender) ==
    LET amount == s.donations[sender]
        s1 == [s EXCEPT !.donations[sender] = 0]
        s2 == [s1 EXCEPT !.totalDonations = @ - amount]
    IN AfterCall(s2, amount)

releaseDuringTransfer(s, id) ==
    LET milestone == s.milestones[id + 1]
        s1 == [s EXCEPT !.milestones[id + 1].fundsReleased = TRUE]
    IN AfterCall(s1, milestone.fundAmount)

withdrawDuringTransfer(s) == AfterCall(s, s.balance)

\* A nested withdraw by the owner on the storage mid, when it returns, sends
\* what the outer transfer of the amount paid left in the pool.
NestedWithdrawSeesRest(mid, paid) ==
    \A accept \in BOOLEAN :
        LET w == withdraw(mid, owner, accept) IN
        w.err = "ok" => w.sent.amount = balance - paid

\* C32: a recipient re-entering from inside the value transfer is not paid
\* twice. During a refund to d a nested refund by d reverts with
\* NoDonationToRefund; during a release of a milestone a nested release of it
\* reverts with FundsAlreadyReleased; during a withdraw a nested withdraw
\* reverts with NoFundsToWithdraw and no nested call pays anything; a nested
\* withdraw during a refund or release sends only what the outer transfer
\* left. The storage the recipient sees is the one the outer call ends in.
C32_ReentryIsNotPaidTwice ==
    /\ \A d \in Accounts :
           refund(Storage, d, TRUE).err = "ok" =>
               LET mid == refundDuringTransfer(Storage, d) IN
               /\ refund(Storage, d, TRUE).s = mid
               /\ \A accept \in BOOLEAN :
                      refund(mid, d, accept).err = "NoDonationToRefund"
               /\ NestedWithdrawSeesRest(mid, donations[d])
    /\ \A id \in Ids :
           releaseMilestoneFunds(Storage, owner, id, TRUE).err = "ok" =>
               LET mid == releaseDuringTransfer(Storage, id) IN
               /\ releaseMilestoneFunds(Storage, owner, id, TRUE).s = mid
               /\ \A accept \in BOOLEAN :
                      releaseMilestoneFunds(mid, owner, id, accept).err
                          = "FundsAlreadyReleased"
               /\ NestedWithdrawSeesRest(mid, milestones[id + 1].fundAmount)
    /\ withdraw(Storage, owner, TRUE).err = "ok" =>
           LET mid == withdrawDuringTransfer(Storage) IN
           /\ withdraw(Storage, owner, TRUE).s = mid
           /\ \A accept \in BOOLEAN :
                  withdraw(mid, owner, accept).err = "NoFundsToWithdraw"
           /\ \A r \in ResultsOn(mid) : r.sent = NoTransfer

\* After the deadline with the goal missed, the owner, a contract that can
\* re-enter, is a donor due a refund, and the pool holds enough to pay that
\* balance twice.
C32_Witness ==
    /\ now >= deadline /\ totalDonations < fundraisingGoal
    /\ owner \in Contracts
    /\ donations[owner] > 0
    /\ balance >= 2 * donations[owner]
    /\ refund(Storage, owner, TRUE).err = "ok"
    /\ withdraw(Storage, owner, TRUE).err = "ok"

\* What one step does to the pool: it gains the value of a donation taken in
\* the step and loses the amount sent by a refund, withdraw or release taken
\* in the step, and nothing else; and a step that is not a withdraw or a
\* release keeps the pool equal to totalDonations if it was.
PoolAccounting ==
    /\ balance' = balance
                  + (IF last'.op = "donate" THEN last'.ev[3] ELSE 0)
                  - last'.sent.amount
    /\ last'.sent.amount > 0 =>
           last'.op \in {"refund", "withdraw", "releaseMilestoneFunds"}
    /\ (balance = totalDonations
            /\ last'.op \notin {"withdraw", "releaseMilestoneFunds"})
       => balance' = totalDonations'

\* C33: the pool starts at 0 and every step changes it by exactly the
\* donation taken or the amount refunded, withdrawn or released, so it is
\* the donations taken minus the amounts paid out; it is never negative and
\* never more than totalDonations, and equals totalDonations until a
\* withdraw or a release returns.
C33_PoolIsDonationsMinusPayouts ==
    /\ balance = 0 /\ totalDonations = 0
    /\ [](balance >= 0 /\ balance <= totalDonations)
    /\ [][PoolAccounting]_vars

\* A donor has just been refunded after the owner had been paid out of the
\* pool: the pool is below totalDonations, which other donors still hold.
C33_Witness ==
    /\ last.op = "refund" /\ last.sent.amount > 0
    /\ totalDonations > 0
    /\ balance < totalDonations

\* A step keeps the goal met once it is met and is then not a refund; from
\* the deadline on it keeps the goal missed if it is missed; time does not
\* go back.
GoalOutcomeKept ==
    /\ now' >= now
    /\ totalDonations >= fundraisingGoal =>
           /\ totalDonations' >= fundraisingGoal
           /\ last'.op # "refund"
    /\ (now >= deadline /\ totalDonations < fundraisingGoal) =>
           totalDonations' < fundraisingGoal

\* C34: once totalDonations >= fundraisingGoal it stays so in every later
\* state and every refund reverts with RefundNotAvailable; and if
\* totalDonations < fundraisingGoal at the deadline it stays below the goal.
C34_GoalOutcomeIsPermanent ==
    /\ [](totalDonations >= fundraisingGoal =>
              \A d \in Accounts, accept \in BOOLEAN :
                  refund(Storage, d, accept).err = "RefundNotAvailable")
    /\ [][GoalOutcomeKept]_vars

\* The goal was exceeded before the deadline, the deadline has passed and the
\* owner has withdrawn: a donor still holding a balance is refused a refund.
C34_Witness ==
    \E d \in Accounts :
        /\ totalDonations > fundraisingGoal
        /\ now >= deadline
        /\ last.op = "withdraw"
        /\ donations[d] > 0
        /\ refund(Storage, d, TRUE).err = "RefundNotAvailable"

\* The condition under which withdraw is available.
WithdrawalOpen == now >= deadline \/ totalDonations >= fundraisingGoal

\* C35: the withdrawal gate is monotonic: once now >= deadline or
\* totalDonations >= fundraisingGoal holds it holds after every step, and
\* while it holds a withdraw by the owner never reverts with
\* WithdrawalNotAvailable.
C35_WithdrawalGateIsMonotonic ==
    /\ [](WithdrawalOpen =>
              \A accept \in BOOLEAN :
                  withdraw(Storage, owner, accept).err # "WithdrawalNotAvailable")
    /\ [][WithdrawalOpen => WithdrawalOpen']_vars

\* The goal was met before the deadline and the owner has just withdrawn;
\* the deadline is still ahead and withdrawal is still open, the next
\* withdraw finding an empty pool.
C35_Witness ==
    /\ last.op = "withdraw"
    /\ now < deadline
    /\ totalDonations >= fundraisingGoal
    /\ withdraw(Storage, owner, TRUE).err = "NoFundsToWithdraw"

\* Some donate, and some refund, would return in the current state.
DonateCanSucceed ==
    \E a \in Accounts, value \in 0..MaxValue :
        donate(Storage, a, value).err = "ok"

RefundCanSucceed ==
    \E a \in Accounts, accept \in BOOLEAN :
        refund(Storage, a, accept).err = "ok"

\* A donate is taken before the deadline and a refund from the deadline on,
\* time does not go back, and from the deadline on totalDonations does not
\* rise.
WindowsOrdered ==
    /\ now' >= now
    /\ last'.op = "donate" => now' < deadline /\ now' = now
    /\ last'.op = "refund" => now' >= deadline /\ now' = now
    /\ now >= deadline => totalDonations' <= totalDonations

\* C36: the donation and refund windows are disjoint and ordered: in no
\* state can both a donate and a refund return; every donate that returns is
\* before the deadline and every refund that returns at or after it, so each
\* donate precedes each refund; totalDonations never rises once
\* now >= deadline.
C36_DonateBeforeRefund ==
    /\ [](~(DonateCanSucceed /\ RefundCanSucceed))
    /\ [](DonateCanSucceed => now < deadline)
    /\ [](RefundCanSucceed => now >= deadline)
    /\ [][WindowsOrdered]_vars

\* At exactly the deadline with the goal missed a donor has just been
\* refunded and another can be; donations are refused.
C36_Witness ==
    /\ now = deadline
    /\ last.op = "refund"
    /\ RefundCanSucceed
    /\ ~DonateCanSucceed
    /\ \A a \in Accounts : donate(Storage, a, 1).err = "FundraisingClosed"

\* Some vote on milestone id, and the finalization of milestone id, would
\* return in the current state.
VoteCanSucceed(id) ==
    \E a \in Accounts, approve \in BOOLEAN :
        voteOnMilestone(Storage, a, id, approve).err = "ok"

FinalizeCanSucceed(id) ==
    \E a \in Accounts : finalizeMilestoneVote(Storage, a, id).err = "ok"

\* From the moment the finalization of a milestone can succeed, a step leaves
\* its tallies as they are, and if the finalization can still succeed after
\* the step it has the outcome it had before.
TalliesFrozenAfterDeadline ==
    \A id \in Ids :
        now > milestones[id + 1].voteDeadline =>
            /\ milestones'[id + 1].yesVotes = milestones[id + 1].yesVotes
            /\ milestones'[id + 1].noVotes = milestones[id + 1].noVotes
            /\ (FinalizeCanSucceed(id) /\ FinalizeCanSucceed(id)') =>
                   (finalizeMilestoneVote(Storage, owner, id).ev)'
                       = finalizeMilestoneVote(Storage, owner, id).ev

\* C37: for one milestone a vote and the finalization can never both succeed
\* in the same state (a vote needs now <= voteDeadline, the finalization
\* now > voteDeadline); the tallies do not change once now > voteDeadline,
\* and the outcome of the finalization is the same whenever after
\* voteDeadline it is called.
C37_VoteThenFinalize ==
    /\ [](\A id \in Ids :
              /\ ~(VoteCanSucceed(id) /\ FinalizeCanSucceed(id))
              /\ VoteCanSucceed(id) => now <= milestones[id + 1].voteDeadline
              /\ FinalizeCanSucceed(id) => now > milestones[id + 1].voteDeadline)
    /\ [][TalliesFrozenAfterDeadline]_vars

\* The voting period of a milestone with votes cast is over and a donor who
\* did not vote has just donated again: that donor's vote is refused as
\* VotingNotActive and the finalization can succeed.
C37_Witness ==
    \E id \in Ids, d \in Accounts :
        /\ last.op = "donate" /\ last.ev[2] = d
        /\ now > milestones[id + 1].voteDeadline
        /\ State(milestones[id + 1]) = "Voting"
        /\ milestones[id + 1].yesVotes + milestones[id + 1].noVotes > 0
        /\ ~hasVoted[id][d]
        /\ voteOnMilestone(Storage, d, id, TRUE).err = "VotingNotActive"
        /\ FinalizeCanSucceed(id)

\* The finalization of milestone id by some caller, as one action, and the
\* specification in which time keeps advancing and a finalization that can
\* succeed is eventually made: the two assumptions under which the claim
\* promises an outcome. Any caller may finalize, so no party can withhold it.
FinalizeMilestone(id) ==
    \E sender \in Accounts :
        Do("finalizeMilestoneVote", finalizeMilestoneVote(Storage, sender, id))

SpecLive ==
    /\ Spec
    /\ WF_vars(Tick)
    /\ \A id \in 0..(MaxMilestones - 1) : WF_vars(FinalizeMilestone(id))

\* C38: whenever a milestone is in Voting and now > voteDeadline, its
\* finalization succeeds for every caller; and, time advancing and the
\* finalization being made, every created milestone eventually becomes
\* Approved or Rejected.
C38_FinalizationCannotBeBlocked ==
    /\ [](\A id \in Ids :
              (State(milestones[id + 1]) = "Voting"
                   /\ now > milestones[id + 1].voteDeadline)
              => \A a \in Accounts :
                     finalizeMilestoneVote(Storage, a, id).err = "ok")
    /\ \A id \in 0..(MaxMilestones - 1) :
           (id \in Ids) ~>
               (id \in Ids /\ State(milestones[id + 1]) \in {"Approved", "Rejected"})

\* A milestone nobody voted on has just been finalized, after the owner had
\* ended the campaign and emptied the pool.
C38_Witness ==
    \E id \in Ids :
        /\ last = [op |-> "finalizeMilestoneVote",
                   ev |-> <<"MilestoneRejected", id>>, sent |-> NoTransfer]
        /\ milestones[id + 1].yesVotes + milestones[id + 1].noVotes = 0
        /\ ~campaignActive
        /\ balance = 0
        /\ totalDonations > 0

\* C39: withdraw changes the pool only, and releaseMilestoneFunds the pool
\* and the fundsReleased flag of its milestone only, on the current storage
\* and on one with a further milestone: every donor balance, totalDonations,
\* the tallies and the other milestones are as before, so a donor votes
\* afterwards with the weight held before.
C39_PayoutsTouchOnlyThePool ==
    \A T \in WithOneMoreMilestone, a \in Accounts, accept \in BOOLEAN :
        /\ LET w == withdraw(T, a, accept) IN
           /\ w.s = [T EXCEPT !.balance = w.s.balance]
           /\ w.s.donations = T.donations
           /\ w.s.totalDonations = T.totalDonations
           /\ \A d \in Accounts, id \in IdInputs, b \in BOOLEAN :
                  /\ voteOnMilestone(w.s, d, id, b).err
                         = voteOnMilestone(T, d, id, b).err
                  /\ voteOnMilestone(w.s, d, id, b).ev
                         = voteOnMilestone(T, d, id, b).ev
        /\ \A id \in IdInputs :
               LET r == releaseMilestoneFunds(T, a, id, accept) IN
               /\ r.s.donations = T.donations
               /\ r.s.totalDonations = T.totalDonations
               /\ r.err = "ok" =>
                      r.s = [T EXCEPT !.balance = r.s.balance,
                                      !.milestones[id + 1].fundsReleased = TRUE]
               /\ r.err # "ok" => r.s = T

\* The goal was met while a milestone is still open for voting and the owner
\* has just withdrawn the pool: a donor still holds the balance donated and
\* can vote with it.
C39_Witness ==
    \E d \in Accounts, id \in Ids :
        /\ last.op = "withdraw" /\ last.sent.amount = totalDonations
        /\ balance = 0
        /\ donations[d] > 0
        /\ voteOnMilestone(Storage, d, id, TRUE).err = "ok"
        /\ voteOnMilestone(Storage, d, id, TRUE).ev[5] = donations[d]

\* How a step changes the balances: a donate that returns adds its value to
\* the donor's balance, a refund that returns, made at or after the deadline,
\* sends the caller's whole balance and leaves it 0, and nothing else changes
\* a balance; so a balance is the sum of the donor's donations until the
\* refund, and from the deadline on no balance rises.
BalanceSteps ==
    /\ last'.op = "donate" =>
           donations' = [donations EXCEPT ![last'.ev[2]] = @ + last'.ev[3]]
    /\ last'.op = "refund" =>
           /\ now' >= deadline
           /\ last'.sent.amount = donations[last'.sent.to]
           /\ last'.sent.amount > 0
           /\ donations' = [donations EXCEPT ![last'.sent.to] = 0]
    /\ last'.op \notin {"donate", "refund"} => donations' = donations
    /\ now >= deadline =>
           \A d \in Accounts : donations'[d] <= donations[d]

\* C40: a donor is refunded at most once. A refund that returns is made at or
\* after the deadline, sends the donor's whole balance, the sum of that
\* donor's donations, and leaves it 0; from then on the balance stays 0, and
\* with a balance of 0 every refund reverts with NoDonationToRefund or
\* RefundNotAvailable and every vote with OnlyDonorsCanVote.
C40_RefundedAtMostOnce ==
    /\ [](\A d \in Accounts :
              donations[d] = 0 =>
                  /\ \A accept \in BOOLEAN :
                         refund(Storage, d, accept).err
                             \in {"NoDonationToRefund", "RefundNotAvailable"}
                  /\ \A id \in IdInputs, approve \in BOOLEAN :
                         voteOnMilestone(Storage, d, id, approve).err
                             = "OnlyDonorsCanVote")
    /\ [][BalanceSteps]_vars

\* Time has moved on after a donor who had voted was refunded: the balance is
\* 0, a second refund finds nothing and a vote is refused to a non-donor,
\* while voting on the milestone is still open to others.
C40_Witness ==
    \E d \in Accounts, id \in Ids :
        /\ last.op = "tick"
        /\ now > deadline
        /\ hasVoted[id][d]
        /\ donations[d] = 0
        /\ refund(Storage, d, TRUE).err = "NoDonationToRefund"
        /\ voteOnMilestone(Storage, d, id, TRUE).err = "OnlyDonorsCanVote"

====
